---- MODULE Spec2Model ----
(***************************************************************************)
(* A model of the SnowDucks query cache: the query canonicalizer           *)
(* (snowducks/utils.py), the DuckLake manager with its advisory file lock  *)
(* and its metadata catalog (snowducks/ducklake_manager.py) and the cache  *)
(* query facade (snowducks/core.py).                                       *)
(*                                                                         *)
(* Strings are sequences of one-character strings, timestamps are whole    *)
(* hours on a global clock, Optional[x] is <<>> (None) or <<x>>.           *)
(***************************************************************************)
EXTENDS Integers, Sequences, FiniteSets, TLC

VARIABLES
    clock,                      \* wall clock (datetime.now), in hours
    flock,                      \* processes holding the flock on snowducks.lock
    manager,                    \* per process: the DuckLakeManager object of core._ducklake_manager
    config,                     \* per process: core._config
    pc,                         \* per process: position in the running operation
    op,                         \* per process: arguments and locals of the running operation
    result,                     \* per process: what the last operation returned or raised
    snowducks_queries,          \* catalog table (QueryRecord rows), in insertion order
    snowducks_query_metadata,   \* catalog table (QueryLimitMetadata rows)
    snowducks_cache_metadata,   \* catalog table (CacheEntry rows)
    snowducks_users,            \* catalog table (UserStats rows)
    storage,                    \* tables present in the DuckLake storage
    lastWrite,                  \* history: per fingerprint, the last completed create_cached_table
    lastEvent,                  \* history: the last completed operation on the cache
    qa, qb                      \* the pair of query texts a run works with

vars == <<clock, flock, manager, config, pc, op, result, snowducks_queries,
          snowducks_query_metadata, snowducks_cache_metadata, snowducks_users,
          storage, lastWrite, lastEvent, qa, qb>>

-----------------------------------------------------------------------------
(* Bounds of the model *)

MaxTime == 2
MaxUsage == 2
MaxLen == 5
MaxAge == 2

-----------------------------------------------------------------------------
(* Characters and Python's str methods *)

WhitespaceChars == {" ", "\t", "\n"}

UpperLetters == <<"A","B","C","D","E","F","G","H","I","J","K","L","M",
                  "N","O","P","Q","R","S","T","U","V","W","X","Y","Z">>
LowerLetters == <<"a","b","c","d","e","f","g","h","i","j","k","l","m",
                  "n","o","p","q","r","s","t","u","v","w","x","y","z">>
Digits == <<"0","1","2","3","4","5","6","7","8","9">>

Range(s) == {s[i] : i \in DOMAIN s}
IndexOf(s, c) == CHOOSE i \in DOMAIN s : s[i] = c

IsSpace(c) == c \in WhitespaceChars
IsDigit(c) == c \in Range(Digits)
IsUpper(c) == c \in Range(UpperLetters)
IsLowerLetter(c) == c \in Range(LowerLetters)
IsWordChar(c) == IsDigit(c) \/ IsUpper(c) \/ IsLowerLetter(c) \/ c = "_"

\* str.lower() on one character
ToLower(c) == IF IsUpper(c) THEN LowerLetters[IndexOf(UpperLetters, c)] ELSE c
ToUpper(c) == IF IsLowerLetter(c) THEN UpperLetters[IndexOf(LowerLetters, c)] ELSE c

str_lower(s) == [i \in 1..Len(s) |-> ToLower(s[i])]

RECURSIVE str_lstrip(_)
str_lstrip(s) ==
    IF s # <<>> /\ IsSpace(Head(s)) THEN str_lstrip(Tail(s)) ELSE s

RECURSIVE str_rstrip(_)
str_rstrip(s) ==
    IF s # <<>> /\ IsSpace(s[Len(s)]) THEN str_rstrip(SubSeq(s, 1, Len(s) - 1)) ELSE s

str_strip(s) == str_rstrip(str_lstrip(s))

\* str.split(): the maximal runs of non-whitespace characters
RECURSIVE SplitFrom(_, _, _)
SplitFrom(s, word, words) ==
    IF s = <<>>
    THEN IF word = <<>> THEN words ELSE Append(words, word)
    ELSE IF IsSpace(Head(s))
         THEN SplitFrom(Tail(s), <<>>, IF word = <<>> THEN words ELSE Append(words, word))
         ELSE SplitFrom(Tail(s), Append(word, Head(s)), words)

str_split(s) == SplitFrom(s, <<>>, <<>>)

\* sep.join(words)
RECURSIVE str_join(_, _)
str_join(sep, words) ==
    IF words = <<>> THEN <<>>
    ELSE IF Len(words) = 1 THEN words[1]
    ELSE words[1] \o sep \o str_join(sep, Tail(words))

-----------------------------------------------------------------------------
(* snowducks/utils.py *)

\* variant: a trailing semicolon is dropped from the canonical text
normalize_query_text_no_semicolon(query_text) ==
    LET n == str_lower(str_join(<<" ">>, str_split(str_strip(query_text))))
    IN  IF n # <<>> /\ n[Len(n)] = ";" THEN SubSeq(n, 1, Len(n) - 1) ELSE n

\* variant: the case of the letters is kept
normalize_query_text_keeps_case(query_text) ==
    str_join(<<" ">>, str_split(str_strip(query_text)))

normalize_query_text(query_text) ==
    str_lower(str_join(<<" ">>, str_split(str_strip(query_text))))

\* hashlib.sha256(text.encode()).hexdigest()[:16].  SHA-256 itself is outside the
\* model: the digest prefix is a deterministic stand-in with the same shape (16
\* lowercase hexadecimal characters, the digest of the empty text is that of
\* SHA-256) which mixes every character of the text into a 64-bit state and has
\* no collision among texts of up to 10 characters of equal length.
HexDigits == <<"0","1","2","3","4","5","6","7","8","9","a","b","c","d","e","f">>

CharTable == <<" ", "\t", "\n", "%", ";", "_", "*", ".", "'", "\"", "-", "/", "(", ")", ",", "=">>
             \o Digits \o LowerLetters \o UpperLetters

CharCode(c) == IF c \in Range(CharTable) THEN IndexOf(CharTable, c) ELSE 0

HashRadix == Len(CharTable) + 1

\* the first 16 hexadecimal digits of sha256(b""), least significant first
EmptyDigest == <<4, 1, 12, 1, 12, 15, 8, 9, 2, 4, 4, 12, 0, 11, 3, 14>>

RECURSIVE MulAdd(_, _, _, _)
MulAdd(d, i, m, carry) ==
    IF i > Len(d) THEN d
    ELSE LET v == d[i] * m + carry
         IN  MulAdd([d EXCEPT ![i] = v % 16], i + 1, m, v \div 16)

RECURSIVE Absorb(_, _)
Absorb(d, text) ==
    IF text = <<>> THEN d
    ELSE Absorb(MulAdd(d, 1, HashRadix, CharCode(Head(text))), Tail(text))

sha256_hexdigest16(text) ==
    LET d == Absorb(EmptyDigest, text)
    IN  [i \in 1..Len(d) |-> HexDigits[d[Len(d) + 1 - i] + 1]]

generate_query_hash(query_text) == <<"t", "_">> \o sha256_hexdigest16(query_text)

\* variant: the digits of the canonical text are left out of the hash
generate_normalized_query_hash_no_digits(query_text) ==
    generate_query_hash(SelectSeq(normalize_query_text(query_text),
                                  LAMBDA c : ~IsDigit(c)))

generate_normalized_query_hash(query_text) ==
    generate_query_hash(normalize_query_text(query_text))

\* re: \s+ and \d+ from position i; the first position that does not match
RECURSIVE SkipSpaces(_, _)
SkipSpaces(s, i) == IF i <= Len(s) /\ IsSpace(s[i]) THEN SkipSpaces(s, i + 1) ELSE i

RECURSIVE SkipDigits(_, _)
SkipDigits(s, i) == IF i <= Len(s) /\ IsDigit(s[i]) THEN SkipDigits(s, i + 1) ELSE i

\* the keyword kw at position i of s, ignoring case (re.IGNORECASE)
KeywordAt(s, i, kw) ==
    /\ i >= 1
    /\ i + Len(kw) - 1 <= Len(s)
    /\ \A k \in 1..Len(kw) : ToLower(s[i + k - 1]) = kw[k]

KwLimit == <<"l", "i", "m", "i", "t">>
KwOffset == <<"o", "f", "f", "s", "e", "t">>

\* variant: the pattern has no OFFSET part
LimitTailAt_no_offset(s, m) == SkipSpaces(s, m) = Len(s) + 1

\* (?:\s+offset\s+(\d+))?\s*$ from position m
LimitTailAt(s, m) ==
    \/ SkipSpaces(s, m) = Len(s) + 1
    \/ LET p == SkipSpaces(s, m)
           q == SkipSpaces(s, p + Len(KwOffset))
           r == SkipDigits(s, q)
       IN  /\ p > m
           /\ KeywordAt(s, p, KwOffset)
           /\ q > p + Len(KwOffset)
           /\ r > q
           /\ SkipSpaces(s, r) = Len(s) + 1

\* limit_pattern = r"\blimit\s+(\d+)(?:\s+offset\s+(\d+))?\s*$" matches at position i
LimitPatternAt(s, i) ==
    /\ KeywordAt(s, i, KwLimit)
    /\ i = 1 \/ ~IsWordChar(s[i - 1])
    /\ LET k == SkipSpaces(s, i + Len(KwLimit))
           m == SkipDigits(s, k)
       IN  /\ k > i + Len(KwLimit)
           /\ m > k
           /\ LimitTailAt(s, m)

\* int(digits)
RECURSIVE ParseInt(_, _)
ParseInt(ds, acc) ==
    IF ds = <<>> THEN acc
    ELSE ParseInt(Tail(ds), acc * 10 + (IndexOf(Digits, Head(ds)) - 1))

\* returns <<query_without_limit, limit_value>>, limit_value = <<>> for None
extract_limit_from_query(query_text) ==
    LET normalized == normalize_query_text(query_text)
        starts == {i \in 1..Len(normalized) : LimitPatternAt(normalized, i)}
    IN  IF starts # {}
        THEN LET i == CHOOSE x \in starts : \A y \in starts : x <= y
                 k == SkipSpaces(normalized, i + Len(KwLimit))
                 m == SkipDigits(normalized, k)
             IN  <<str_strip(SubSeq(normalized, 1, i - 1)),
                   <<ParseInt(SubSeq(normalized, k, m - 1), 0)>> >>
        ELSE <<normalized, <<>> >>

\* variant: the LIMIT clause stays in the hashed text
generate_query_hash_keeps_limit(query_text) ==
    generate_normalized_query_hash(query_text)

generate_query_hash_without_limit(query_text) ==
    generate_query_hash(extract_limit_from_query(query_text)[1])

parse_query_metadata(query_text) ==
    LET e == extract_limit_from_query(query_text)
    IN  [original_query |-> query_text,
         query_without_limit |-> e[1],
         limit_value |-> e[2],
         has_limit |-> e[2] # <<>>,
         query_hash |-> generate_query_hash(e[1])]

-----------------------------------------------------------------------------
(* The query texts of the workloads *)

QA == <<"a">>
QA_fmt == <<" ", "A", "\t">>
QA_semi == <<"a", ";">>
QL1 == <<"a", " ", "l", "i", "m", "i", "t", " ", "1">>
QL2 == <<"a", " ", "l", "i", "m", "i", "t", " ", "2">>
QMulti == <<"a", ";", "b">>

CacheQueries == {QA, QA_fmt, QA_semi, QL1, QL2, QMulti}
Workloads == {<<QA, QA_fmt>>, <<QA, QA_semi>>, <<QL1, QL2>>, <<QA, QMulti>>}

-----------------------------------------------------------------------------
(* Processes, configuration and the objects of snowducks/ducklake_manager.py *)

Procs == {"p1", "p2"}

None == <<>>
Some(x) == <<x>>

max_attempts == 30
DefaultRowLimit == 1000

\* core._config: the fields of SnowDucksConfig the cache reads
Config(max_age, force, egress) ==
    [cache_max_age_hours |-> max_age,
     cache_force_refresh |-> force,
     allow_unlimited_egress |-> egress,
     default_row_limit |-> DefaultRowLimit,
     deployment_mode |-> "local"]

\* DuckLakeManager.__init__: no connection, no lock handle
NewManager ==
    [state |-> "new", duckdb_connection |-> FALSE, ducklake_attached |-> FALSE,
     lock_file |-> FALSE, lock_fd |-> FALSE]

\* core._ducklake_manager = None
NoManager == [NewManager EXCEPT !.state = "none"]

_get_schema_name == "snowducks_ducklake"

\* f"{schema_name}.{table_name}"; _table_exists splits it again at the dot
FqName(schema_name, table_name) == [schema |-> schema_name, table |-> table_name]

\* the one identifier that a quoted "schema.table" names
QuotedName(fq) == [schema |-> "main", table |-> <<fq.schema, ".">> \o fq.table]

_get_user_id == "user"

\* variant: the key is the fingerprint of the text without its LIMIT clause
_generate_query_hash_without_limit(query_text) ==
    generate_query_hash_without_limit(query_text)

\* the fingerprints of the workloads' texts, computed once
QueryHashes == [q \in CacheQueries |-> generate_normalized_query_hash(q)]

_generate_query_hash(query_text) ==
    IF query_text \in CacheQueries
    THEN QueryHashes[query_text]
    ELSE generate_normalized_query_hash(query_text)

_parse_query_metadata(query_text) == parse_query_metadata(query_text)

\* SQL on the catalog tables: WHERE query_hash = ?, DELETE ... WHERE query_hash = ?
RowsOf(tbl, query_hash) == SelectSeq(tbl, LAMBDA r : r.query_hash = query_hash)

\* SELECT usage_count, first_seen FROM snowducks_queries WHERE query_hash = ?
UsageOf(rows, query_hash) ==
    {<<rows[i].usage_count, rows[i].first_seen>> :
        i \in {j \in DOMAIN rows : rows[j].query_hash = query_hash}}

\* variant: the DELETE removes nothing
DeleteFrom_nothing(tbl, query_hash) == tbl

DeleteFrom(tbl, query_hash) == SelectSeq(tbl, LAMBDA r : r.query_hash # query_hash)

\* fcntl.flock(fd, LOCK_EX | LOCK_NB) succeeds when no other open file holds the lock
\* variant: the lock is granted whoever holds it
flock_granted_always(p) == TRUE

flock_granted(p) == flock \ {p} = {}

\* variant: a max-age of 0 is taken to mean that the entry never expires
_is_cache_fresh_zero_is_forever(p, query_hash) ==
    IF config[p].cache_force_refresh \/ ~manager[p].duckdb_connection
    THEN FALSE
    ELSE LET rows == RowsOf(snowducks_queries, query_hash)
         IN  IF rows = <<>> THEN FALSE
             ELSE IF rows[1].last_refresh = None THEN FALSE
             ELSE \/ rows[1].cache_max_age_hours = 0
                  \/ clock - rows[1].last_refresh[1] < rows[1].cache_max_age_hours

\* variant: the force-refresh flag of the configuration is not looked at
_is_cache_fresh_ignores_flag(p, query_hash) ==
    IF ~manager[p].duckdb_connection
    THEN FALSE
    ELSE LET rows == RowsOf(snowducks_queries, query_hash)
         IN  IF rows = <<>> THEN FALSE
             ELSE IF rows[1].last_refresh = None THEN FALSE
             ELSE clock - rows[1].last_refresh[1] < rows[1].cache_max_age_hours

\* variant: the age is compared with the max-age of the current configuration
_is_cache_fresh_current_max_age(p, query_hash) ==
    IF config[p].cache_force_refresh \/ ~manager[p].duckdb_connection
    THEN FALSE
    ELSE LET rows == RowsOf(snowducks_queries, query_hash)
         IN  IF rows = <<>> THEN FALSE
             ELSE IF rows[1].last_refresh = None THEN FALSE
             ELSE clock - rows[1].last_refresh[1] < config[p].cache_max_age_hours

\* variant: an entry exactly max-age old still counts as fresh
_is_cache_fresh_inclusive(p, query_hash) ==
    IF config[p].cache_force_refresh \/ ~manager[p].duckdb_connection
    THEN FALSE
    ELSE LET rows == RowsOf(snowducks_queries, query_hash)
         IN  IF rows = <<>> THEN FALSE
             ELSE IF rows[1].last_refresh = None THEN FALSE
             ELSE clock - rows[1].last_refresh[1] <= rows[1].cache_max_age_hours

_is_cache_fresh(p, query_hash) ==
    IF config[p].cache_force_refresh \/ ~manager[p].duckdb_connection
    THEN FALSE
    ELSE LET rows == RowsOf(snowducks_queries, query_hash)
         IN  IF rows = <<>> THEN FALSE
             ELSE IF rows[1].last_refresh = None THEN FALSE
             ELSE clock - rows[1].last_refresh[1] < rows[1].cache_max_age_hours

\* variant: the storage is not asked
_table_exists_unchecked(p, fq_table_name) ==
    manager[p].duckdb_connection

_table_exists(p, fq_table_name) ==
    IF ~manager[p].duckdb_connection THEN FALSE
    ELSE \/ fq_table_name \in storage
         \/ FqName("main", fq_table_name.table) \in storage

\* variant: a hit sets last_used and leaves the count
_update_cache_usage_no_count(p, query_hash) ==
    IF ~manager[p].duckdb_connection THEN snowducks_queries
    ELSE [i \in 1..Len(snowducks_queries) |->
            IF snowducks_queries[i].query_hash = query_hash
            THEN [snowducks_queries[i] EXCEPT !.last_used = clock]
            ELSE snowducks_queries[i]]

\* variant: the UPDATE sets last_refresh as well
_update_cache_usage_refreshes(p, query_hash) ==
    IF ~manager[p].duckdb_connection THEN snowducks_queries
    ELSE [i \in 1..Len(snowducks_queries) |->
            IF snowducks_queries[i].query_hash = query_hash
            THEN [snowducks_queries[i] EXCEPT !.last_used = clock,
                                              !.usage_count = @ + 1,
                                              !.last_refresh = Some(clock)]
            ELSE snowducks_queries[i]]

\* UPDATE snowducks_queries SET last_used = ?, usage_count = usage_count + 1 WHERE query_hash = ?
_update_cache_usage(p, query_hash) ==
    IF ~manager[p].duckdb_connection THEN snowducks_queries
    ELSE [i \in 1..Len(snowducks_queries) |->
            IF snowducks_queries[i].query_hash = query_hash
            THEN [snowducks_queries[i] EXCEPT !.last_used = clock,
                                              !.usage_count = @ + 1]
            ELSE snowducks_queries[i]]

\* variant: the reference returned names the table in the default schema
get_cached_table_name_main_schema(p, query_text) ==
    LET query_hash == _generate_query_hash(query_text)
        fq_table_name == FqName(_get_schema_name, query_hash)
    IN  IF ~_table_exists(p, fq_table_name) \/ ~_is_cache_fresh(p, query_hash)
        THEN None
        ELSE Some(FqName("main", query_hash))

\* variant: _check_limit_metadata is asked whether the stored limit_value is the
\* limit of the call
get_cached_table_name_checks_limit(p, query_text) ==
    LET query_hash == _generate_query_hash(query_text)
        fq_table_name == FqName(_get_schema_name, query_hash)
        stored == RowsOf(snowducks_query_metadata, query_hash)
        limit == IF op[p].limit = None THEN config[p].default_row_limit
                 ELSE op[p].limit[1]
    IN  IF \/ ~_table_exists(p, fq_table_name)
           \/ ~_is_cache_fresh(p, query_hash)
           \/ stored = <<>>
           \/ stored[1].limit_value # <<limit>>
        THEN None
        ELSE Some(fq_table_name)

\* the value get_cached_table_name returns: None or the table reference
get_cached_table_name(p, query_text) ==
    LET query_hash == _generate_query_hash(query_text)
        fq_table_name == FqName(_get_schema_name, query_hash)
        table_exists == _table_exists(p, fq_table_name)
        cache_fresh == _is_cache_fresh(p, query_hash)
    IN  IF ~table_exists \/ ~cache_fresh THEN None ELSE Some(fq_table_name)

\* the rows create_cached_table inserts
QueryRecord(p, query_hash, metadata, now, row_count, execution_time_ms) ==
    [query_hash |-> query_hash,
     query_text |-> metadata.query_without_limit,
     first_seen |-> now,
     last_used |-> now,
     usage_count |-> 1,
     avg_execution_time_ms |-> execution_time_ms,
     total_rows_fetched |-> row_count,
     created_by |-> _get_user_id,
     last_refresh |-> Some(now),
     cache_max_age_hours |-> config[p].cache_max_age_hours]

QueryLimitMetadata(query_hash, metadata, now) ==
    [query_hash |-> query_hash,
     original_query |-> metadata.original_query,
     query_without_limit |-> metadata.query_without_limit,
     limit_value |-> metadata.limit_value,
     has_limit |-> metadata.has_limit,
     created_at |-> now]

\* variant: expires_at is computed whatever the max-age is
expires_at_always_set(p, now) == Some(now + config[p].cache_max_age_hours)

expires_at(p, now) ==
    IF config[p].cache_max_age_hours > 0
    THEN Some(now + config[p].cache_max_age_hours)
    ELSE None

CacheEntry(p, query_hash, fq_table_name, now, row_count) ==
    [query_hash |-> query_hash,
     table_name |-> fq_table_name,
     file_count |-> 1,
     total_size_bytes |-> None,
     row_count |-> row_count,
     created_at |-> now,
     expires_at |-> expires_at(p, now),
     created_by |-> _get_user_id]

UserStats(p, user_id, now) ==
    [user_id |-> user_id, first_seen |-> now, last_seen |-> now,
     total_queries |-> 1, environment |-> config[p].deployment_mode]

\* cleanup_expired_cache: the rows its SELECT returns
cutoff_time(p) == clock - config[p].cache_max_age_hours

expired_queries(p) ==
    SelectSeq(snowducks_cache_metadata,
              LAMBDA r : r.expires_at # None /\ r.expires_at[1] < cutoff_time(p))

TablesOf(rows) == {rows[i].table_name : i \in DOMAIN rows}
HashesOf(rows) == {rows[i].query_hash : i \in DOMAIN rows}

-----------------------------------------------------------------------------
(* State of an operation in progress *)

OpNone ==
    [name |-> "none", query_text |-> <<>>, limit |-> None, force_refresh |-> FALSE,
     cache_key |-> None, building |-> NoManager, attempt |-> 0, sleeps |-> 0,
     final_query |-> <<>>, row_count |-> 0, execution_time_ms |-> 0, now |-> 0,
     empty_before |-> FALSE, seen_cache |-> <<>>, seen_storage |-> {},
     failed_step |-> "none", seen_usage |-> {}, failed_drop |-> {}]

NoResult ==
    [kind |-> "none", name |-> "none", query_text |-> <<>>, table |-> None,
     status |-> "none", count |-> 0, error |-> "none"]

NoEvent == [kind |-> "none", query_hash |-> <<>>, limit |-> None]

CatalogEmpty ==
    /\ snowducks_queries = <<>>
    /\ snowducks_query_metadata = <<>>
    /\ snowducks_cache_metadata = <<>>
    /\ storage = {}

Returns(p, fields) == result' = [result EXCEPT ![p] = fields]

Return(p, tbl, st, n) ==
    [kind |-> "return", name |-> op[p].name, query_text |-> op[p].query_text,
     table |-> tbl, status |-> st, count |-> n, error |-> "none"]

Raise(p, err) ==
    [kind |-> "raise", name |-> op[p].name, query_text |-> op[p].query_text,
     table |-> None, status |-> "none", count |-> 0, error |-> err]

\* where an operation continues once _get_ducklake_manager() has returned
Body(name) ==
    CASE name = "snowflake_query" -> "sq_validate"
      [] name = "cleanup_expired_cache" -> "cleanup"
      [] name = "clear_cache" -> "clear_cache"
      [] name = "clear_cache_by_hash" -> "clear_by_hash"
      [] name = "cli_stats" -> "stats"
      [] OTHER -> "configured"

\* the clock and the storage do not move while a caller looks at a result
Observed == \E p \in Procs : pc[p] \in {"done", "sq_miss"}

catalogVars == <<snowducks_queries, snowducks_query_metadata,
                 snowducks_cache_metadata, snowducks_users, storage>>
canonVars == <<qa, qb>>

-----------------------------------------------------------------------------
(* core.py entry points: the caller starts an operation *)

Start(p, fields) ==
    /\ pc[p] = "idle"
    /\ op' = [op EXCEPT ![p] = fields]
    /\ pc' = [pc EXCEPT ![p] = "get_manager"]
    /\ UNCHANGED <<clock, flock, manager, config, result, catalogVars, lastWrite,
                   lastEvent, canonVars>>

snowflake_query(p, query_text, limit, force_refresh) ==
    /\ \A i \in DOMAIN snowducks_queries :
          snowducks_queries[i].query_hash = _generate_query_hash(query_text)
             => snowducks_queries[i].usage_count < MaxUsage
    /\ Start(p, [OpNone EXCEPT !.name = "snowflake_query",
                               !.query_text = query_text,
                               !.limit = limit,
                               !.force_refresh = force_refresh,
                               !.empty_before = CatalogEmpty])

cleanup_expired_cache(p) ==
    Start(p, [OpNone EXCEPT !.name = "cleanup_expired_cache"])

clear_cache(p, cache_key) ==
    Start(p, [OpNone EXCEPT !.name = "clear_cache", !.cache_key = cache_key])

clear_cache_by_hash_call(p, query_hash) ==
    Start(p, [OpNone EXCEPT !.name = "clear_cache_by_hash",
                            !.cache_key = Some(query_hash)])

\* DuckLakeManager.close and _release_lock
Closed(m) ==
    [m EXCEPT !.state = IF m.state = "none" THEN "none" ELSE "closed",
              !.duckdb_connection = FALSE, !.lock_fd = FALSE, !.lock_file = FALSE]

\* DuckLakeManager.__init__ up to the lock loop: the lock file is opened
Opening == [NewManager EXCEPT !.lock_file = TRUE, !.lock_fd = TRUE]

\* configure: replaces the configuration, closes the manager and builds a new one
configure(p, new_config) ==
    /\ pc[p] = "idle"
    /\ config' = [config EXCEPT ![p] = new_config]
    /\ manager' = [manager EXCEPT ![p] = Closed(manager[p])]
    /\ flock' = IF manager[p].state = "none" THEN flock ELSE flock \ {p}
    /\ op' = [op EXCEPT ![p] = [OpNone EXCEPT !.name = "configure",
                                              !.building = Opening]]
    /\ pc' = [pc EXCEPT ![p] = "acquire_lock"]
    /\ UNCHANGED <<clock, result, catalogVars, lastWrite, lastEvent, canonVars>>

\* _get_ducklake_manager: the manager is built on first use
_get_ducklake_manager(p) ==
    /\ pc[p] = "get_manager"
    /\ IF manager[p].state = "none"
       THEN /\ op' = [op EXCEPT ![p].building = Opening]
            /\ pc' = [pc EXCEPT ![p] = "acquire_lock"]
       ELSE /\ pc' = [pc EXCEPT ![p] = Body(op[p].name)]
            /\ UNCHANGED op
    /\ UNCHANGED <<clock, flock, manager, config, result, catalogVars, lastWrite,
                   lastEvent, canonVars>>

-----------------------------------------------------------------------------
(* DuckLakeManager._acquire_lock and _init_ducklake *)

\* variant: the loop has no last attempt
attempts_left_always(p) == TRUE

attempts_left(p) == op[p].attempt < max_attempts - 1

AcquireLockSuccess(p) ==
    /\ pc[p] = "acquire_lock"
    /\ flock_granted(p)
    /\ flock' = flock \cup {p}
    /\ op' = [op EXCEPT ![p].attempt = 0, ![p].sleeps = 0]
    /\ pc' = [pc EXCEPT ![p] = "init_ducklake"]
    /\ UNCHANGED <<clock, manager, config, result, catalogVars, lastWrite,
                   lastEvent, canonVars>>

AcquireLockRetry(p) ==
    /\ pc[p] = "acquire_lock"
    /\ ~flock_granted(p)
    /\ attempts_left(p)
    /\ op' = [op EXCEPT ![p].attempt = @ + 1, ![p].sleeps = @ + 1]
    /\ UNCHANGED <<clock, flock, manager, config, pc, result, catalogVars,
                   lastWrite, lastEvent, canonVars>>

\* the last attempt fails: DuckLakeError, _init_ducklake releases and re-raises
AcquireLockTimeout(p) ==
    /\ pc[p] = "acquire_lock"
    /\ ~flock_granted(p)
    /\ ~attempts_left(p)
    /\ op' = [op EXCEPT ![p].building = Closed(@)]
    /\ flock' = flock \ {p}
    /\ Returns(p, Raise(p, "DuckLakeError"))
    /\ pc' = [pc EXCEPT ![p] = "done"]
    /\ UNCHANGED <<clock, manager, config, catalogVars, lastWrite, lastEvent,
                   canonVars>>

\* connect, load the extensions, attach, create the metadata tables, commit
InitDucklakeOk(p) ==
    /\ pc[p] = "init_ducklake"
    /\ manager' = [manager EXCEPT ![p] =
                      [op[p].building EXCEPT !.state = "ready",
                                             !.duckdb_connection = TRUE,
                                             !.ducklake_attached = TRUE]]
    /\ op' = [op EXCEPT ![p].building = NoManager]
    /\ pc' = [pc EXCEPT ![p] = Body(op[p].name)]
    /\ UNCHANGED <<clock, flock, config, result, catalogVars, lastWrite, lastEvent,
                   canonVars>>

\* variant: the error propagates without the call of _release_lock
InitDucklakeFail_keeps_lock(p) ==
    /\ pc[p] = "init_ducklake"
    /\ Returns(p, Raise(p, "DuckLakeError"))
    /\ pc' = [pc EXCEPT ![p] = "done"]
    /\ UNCHANGED <<clock, flock, manager, config, op, catalogVars, lastWrite,
                   lastEvent, canonVars>>

\* one of these steps raises: the lock is released, DuckLakeError propagates
InitDucklakeFail(p) ==
    /\ pc[p] = "init_ducklake"
    /\ op' = [op EXCEPT ![p].building = Closed(@)]
    /\ flock' = flock \ {p}
    /\ Returns(p, Raise(p, "DuckLakeError"))
    /\ pc' = [pc EXCEPT ![p] = "done"]
    /\ UNCHANGED <<clock, manager, config, catalogVars, lastWrite, lastEvent,
                   canonVars>>

\* configure returns once the new manager is built
ConfigureDone(p) ==
    /\ pc[p] = "configured"
    /\ Returns(p, Return(p, None, "none", 0))
    /\ pc' = [pc EXCEPT ![p] = "done"]
    /\ UNCHANGED <<clock, flock, manager, config, op, catalogVars, lastWrite,
                   lastEvent, canonVars>>

-----------------------------------------------------------------------------
(* snowducks/core.py: the regular expressions of the statement guards *)

StartsWithAt(s, i, kw) ==
    /\ i + Len(kw) - 1 <= Len(s)
    /\ \A k \in 1..Len(kw) : s[i + k - 1] = kw[k]

\* re.sub(r"--.*$", "", s, flags=re.MULTILINE)
RECURSIVE StripLineComments(_, _, _)
StripLineComments(s, i, in_comment) ==
    IF i > Len(s) THEN <<>>
    ELSE IF in_comment
         THEN IF s[i] = "\n" THEN <<s[i]>> \o StripLineComments(s, i + 1, FALSE)
              ELSE StripLineComments(s, i + 1, TRUE)
         ELSE IF StartsWithAt(s, i, <<"-", "-">>)
              THEN StripLineComments(s, i + 2, TRUE)
              ELSE <<s[i]>> \o StripLineComments(s, i + 1, FALSE)

\* re.sub(r"/\*.*?\*/", "", s, flags=re.DOTALL)
RECURSIVE StripBlockComments(_, _)
StripBlockComments(s, i) ==
    IF i > Len(s) THEN <<>>
    ELSE LET ends == {j \in (i + 2)..Len(s) : StartsWithAt(s, j, <<"*", "/">>)}
         IN  IF StartsWithAt(s, i, <<"/", "*">>) /\ ends # {}
             THEN StripBlockComments(
                      s, (CHOOSE j \in ends : \A k \in ends : j <= k) + 2)
             ELSE <<s[i]>> \o StripBlockComments(s, i + 1)

\* re.sub(r"\s+", " ", s)
RECURSIVE CollapseSpaces(_, _)
CollapseSpaces(s, i) ==
    IF i > Len(s) THEN <<>>
    ELSE IF IsSpace(s[i]) THEN <<" ">> \o CollapseSpaces(s, SkipSpaces(s, i))
    ELSE <<s[i]>> \o CollapseSpaces(s, i + 1)

\* the end of a match of ([^q]|qq)*q from position j, 0 when there is none:
\* the repetition is greedy and gives a doubled quote back when the rest fails
RECURSIVE QuoteEnd(_, _, _)
QuoteEnd(s, j, q) ==
    IF j > Len(s) THEN 0
    ELSE IF s[j] # q THEN QuoteEnd(s, j + 1, q)
    ELSE IF j + 1 <= Len(s) /\ s[j + 1] = q
         THEN LET r == QuoteEnd(s, j + 2, q) IN IF r # 0 THEN r ELSE j
         ELSE j

\* re.sub(r"q([^q]|qq)*q", repl, s)
RECURSIVE ReplaceQuoted(_, _, _, _)
ReplaceQuoted(s, i, q, repl) ==
    IF i > Len(s) THEN <<>>
    ELSE LET e == IF s[i] = q THEN QuoteEnd(s, i + 1, q) ELSE 0
         IN  IF e # 0 THEN repl \o ReplaceQuoted(s, e + 1, q, repl)
             ELSE <<s[i]>> \o ReplaceQuoted(s, i + 1, q, repl)

\* str.rstrip(";")
RECURSIVE RStripSemicolons(_)
RStripSemicolons(s) ==
    IF s # <<>> /\ s[Len(s)] = ";" THEN RStripSemicolons(SubSeq(s, 1, Len(s) - 1))
    ELSE s

\* TRUE when the query passes, FALSE when QueryError is raised
_validate_single_query(query) ==
    LET c1 == StripLineComments(query, 1, FALSE)
        c2 == StripBlockComments(c1, 1)
        query_clean == str_strip(CollapseSpaces(c2, 1))
        s1 == ReplaceQuoted(query_clean, 1, "'", <<"'", "'">>)
        query_no_strings == ReplaceQuoted(s1, 1, "\"", <<"\"", "\"">>)
        query_no_trailing == str_strip(RStripSemicolons(query_no_strings))
    IN  ";" \notin Range(query_no_trailing)

\* re.search(r"\blimit\b", s)
HasLimitWord(s) ==
    \E i \in 1..Len(s) :
        /\ StartsWithAt(s, i, KwLimit)
        /\ i = 1 \/ ~IsWordChar(s[i - 1])
        /\ i + Len(KwLimit) > Len(s) \/ ~IsWordChar(s[i + Len(KwLimit)])

_has_limit_clause(query) ==
    LET c1 == StripLineComments(query, 1, FALSE)
        c2 == StripBlockComments(c1, 1)
        s1 == ReplaceQuoted(c2, 1, "'", <<"'", "'", ",">>)
        s2 == ReplaceQuoted(s1, 1, "\"", <<"\"", "\"", ",">>)
        query_clean == str_lower(str_strip(CollapseSpaces(s2, 1)))
    IN  HasLimitWord(query_clean)

\* str(n) for an integer
RECURSIVE NatToStr(_)
NatToStr(n) ==
    IF n < 10 THEN <<Digits[n + 1]>> ELSE NatToStr(n \div 10) \o <<Digits[(n % 10) + 1]>>

IntToStr(n) == IF n < 0 THEN <<"-">> \o NatToStr(0 - n) ELSE NatToStr(n)

-----------------------------------------------------------------------------
(* core.snowflake_query *)

\* _validate_single_query raises QueryError or lets the call go on
Validate(p) ==
    /\ pc[p] = "sq_validate"
    /\ IF _validate_single_query(op[p].query_text)
       THEN /\ pc' = [pc EXCEPT ![p] = "sq_lookup"]
            /\ UNCHANGED result
       ELSE /\ Returns(p, Raise(p, "QueryError"))
            /\ pc' = [pc EXCEPT ![p] = "done"]
    /\ UNCHANGED <<clock, flock, manager, config, op, catalogVars, lastWrite,
                   lastEvent, canonVars>>

\* limit = config.default_row_limit when None
EffectiveLimit(p) ==
    IF op[p].limit = None THEN config[p].default_row_limit ELSE op[p].limit[1]

\* the cache lookup: a hit bumps the usage and returns, a miss goes on
Lookup(p) ==
    /\ pc[p] = "sq_lookup"
    /\ LET cached_table == IF op[p].force_refresh THEN None
                           ELSE get_cached_table_name(p, op[p].query_text)
       IN  IF cached_table # None
           THEN /\ snowducks_queries' =
                      _update_cache_usage(p, _generate_query_hash(op[p].query_text))
                /\ Returns(p, Return(p, cached_table, "hit", 0))
                /\ pc' = [pc EXCEPT ![p] = "done"]
           ELSE /\ pc' = [pc EXCEPT ![p] = "sq_miss"]
                /\ UNCHANGED <<snowducks_queries, result>>
    /\ UNCHANGED <<clock, flock, manager, config, op, snowducks_query_metadata,
                   snowducks_cache_metadata, snowducks_users, storage, lastWrite,
                   lastEvent, canonVars>>

\* variant: the limit is appended to a text that has a LIMIT clause too
final_query_always_appends(p) ==
    IF EffectiveLimit(p) # -1
    THEN op[p].query_text \o <<" ", "L", "I", "M", "I", "T", " ">>
         \o IntToStr(EffectiveLimit(p))
    ELSE op[p].query_text

\* f"{query_text} LIMIT {limit}" unless unlimited or a LIMIT is present
final_query(p) ==
    IF EffectiveLimit(p) # -1 /\ ~_has_limit_clause(op[p].query_text)
    THEN op[p].query_text \o <<" ", "L", "I", "M", "I", "T", " ">>
         \o IntToStr(EffectiveLimit(p))
    ELSE op[p].query_text

\* variant: no egress check
Egress_unchecked(p) ==
    /\ pc[p] = "sq_miss"
    /\ op' = [op EXCEPT ![p].final_query = final_query(p)]
    /\ pc' = [pc EXCEPT ![p] = "sq_fetch"]
    /\ UNCHANGED <<clock, flock, manager, config, result, catalogVars, lastWrite,
                   lastEvent, canonVars>>

\* egress check, then the statement for the remote
Egress(p) ==
    /\ pc[p] = "sq_miss"
    /\ IF EffectiveLimit(p) = -1 /\ ~config[p].allow_unlimited_egress
       THEN /\ Returns(p, Raise(p, "PermissionError"))
            /\ pc' = [pc EXCEPT ![p] = "done"]
            /\ UNCHANGED op
       ELSE /\ op' = [op EXCEPT ![p].final_query = final_query(p)]
            /\ pc' = [pc EXCEPT ![p] = "sq_fetch"]
            /\ UNCHANGED result
    /\ UNCHANGED <<clock, flock, manager, config, catalogVars, lastWrite, lastEvent,
                   canonVars>>

\* the remote runs the statement and the result is written to a Parquet file
FetchOk(p, row_count, execution_time_ms) ==
    /\ pc[p] = "sq_fetch"
    /\ op' = [op EXCEPT ![p].row_count = row_count,
                        ![p].execution_time_ms = execution_time_ms]
    /\ pc' = [pc EXCEPT ![p] = "cct_create"]
    /\ UNCHANGED <<clock, flock, manager, config, result, catalogVars, lastWrite,
                   lastEvent, canonVars>>

FetchFail(p) ==
    /\ pc[p] = "sq_fetch"
    /\ Returns(p, Raise(p, "ConnectionError"))
    /\ pc' = [pc EXCEPT ![p] = "done"]
    /\ UNCHANGED <<clock, flock, manager, config, op, catalogVars, lastWrite,
                   lastEvent, canonVars>>

-----------------------------------------------------------------------------
(* DuckLakeManager.create_cached_table, statement by statement *)

CctHash(p) == _generate_query_hash(op[p].query_text)
CctTable(p) == FqName(_get_schema_name, CctHash(p))
CctMetadata(p) == _parse_query_metadata(op[p].query_text)

CctStep(p, from, to) ==
    /\ pc[p] = from
    /\ pc' = [pc EXCEPT ![p] = to]
    /\ UNCHANGED <<flock, manager, config, result, lastEvent, canonVars>>

\* no connection: DuckLakeError; else CREATE OR REPLACE TABLE, and now is read
CctCreateTable(p) ==
    /\ pc[p] = "cct_create"
    /\ IF ~manager[p].duckdb_connection
       THEN /\ Returns(p, Raise(p, "DuckLakeError"))
            /\ pc' = [pc EXCEPT ![p] = "done"]
            /\ UNCHANGED <<op, storage, lastWrite>>
       ELSE /\ storage' = storage \cup {CctTable(p)}
            /\ op' = [op EXCEPT ![p].now = clock,
                                ![p].seen_usage =
                                    UsageOf(snowducks_queries, CctHash(p))]
            /\ lastWrite' = [lastWrite EXCEPT ![CctHash(p)] = None]
            /\ pc' = [pc EXCEPT ![p] = "cct_del_q"]
            /\ UNCHANGED result
    /\ UNCHANGED <<clock, flock, manager, config, snowducks_queries,
                   snowducks_query_metadata, snowducks_cache_metadata,
                   snowducks_users, lastEvent, canonVars>>

CctDeleteQuery(p) ==
    /\ CctStep(p, "cct_del_q", "cct_ins_q")
    /\ snowducks_queries' = DeleteFrom(snowducks_queries, CctHash(p))
    /\ UNCHANGED <<clock, op, snowducks_query_metadata, snowducks_cache_metadata,
                   snowducks_users, storage, lastWrite>>

CctInsertQuery(p) ==
    /\ CctStep(p, "cct_ins_q", "cct_del_m")
    /\ snowducks_queries' =
          Append(snowducks_queries,
                 QueryRecord(p, CctHash(p), CctMetadata(p), op[p].now,
                             op[p].row_count, op[p].execution_time_ms))
    /\ UNCHANGED <<clock, op, snowducks_query_metadata, snowducks_cache_metadata,
                   snowducks_users, storage, lastWrite>>

CctDeleteMetadata(p) ==
    /\ CctStep(p, "cct_del_m", "cct_ins_m")
    /\ snowducks_query_metadata' = DeleteFrom(snowducks_query_metadata, CctHash(p))
    /\ UNCHANGED <<clock, op, snowducks_queries, snowducks_cache_metadata,
                   snowducks_users, storage, lastWrite>>

CctInsertMetadata(p) ==
    /\ CctStep(p, "cct_ins_m", "cct_del_c")
    /\ snowducks_query_metadata' =
          Append(snowducks_query_metadata,
                 QueryLimitMetadata(CctHash(p), CctMetadata(p), op[p].now))
    /\ UNCHANGED <<clock, op, snowducks_queries, snowducks_cache_metadata,
                   snowducks_users, storage, lastWrite>>

CctDeleteCache(p) ==
    /\ CctStep(p, "cct_del_c", "cct_ins_c")
    /\ snowducks_cache_metadata' = DeleteFrom(snowducks_cache_metadata, CctHash(p))
    /\ UNCHANGED <<clock, op, snowducks_queries, snowducks_query_metadata,
                   snowducks_users, storage, lastWrite>>

CctInsertCache(p) ==
    /\ CctStep(p, "cct_ins_c", "cct_users")
    /\ snowducks_cache_metadata' =
          Append(snowducks_cache_metadata,
                 CacheEntry(p, CctHash(p), CctTable(p), op[p].now, op[p].row_count))
    /\ UNCHANGED <<clock, op, snowducks_queries, snowducks_query_metadata,
                   snowducks_users, storage, lastWrite>>

\* _update_user_stats: DELETE and INSERT of the caller's row
CctUpdateUserStats(p) ==
    /\ CctStep(p, "cct_users", "cct_commit")
    /\ snowducks_users' =
          Append(SelectSeq(snowducks_users, LAMBDA r : r.user_id # _get_user_id),
                 UserStats(p, _get_user_id, op[p].now))
    /\ UNCHANGED <<clock, op, snowducks_queries, snowducks_query_metadata,
                   snowducks_cache_metadata, storage, lastWrite>>

\* commit; create_cached_table returns the name and snowflake_query (name, "miss")
CctCommit(p) ==
    /\ pc[p] = "cct_commit"
    /\ Returns(p, Return(p, Some(CctTable(p)), "miss", 0))
    /\ lastWrite' = [lastWrite EXCEPT ![CctHash(p)] =
                        Some([t |-> op[p].now,
                              max_age |-> config[p].cache_max_age_hours,
                              table |-> CctTable(p),
                              query_text |-> op[p].query_text])]
    /\ pc' = [pc EXCEPT ![p] = "done"]
    /\ UNCHANGED <<clock, flock, manager, config, op, catalogVars, lastEvent,
                   canonVars>>

\* the statements of create_cached_table that follow the CREATE, by the position
\* of the process that is about to run them
CctAfterMaterialisation ==
    {"cct_del_q", "cct_ins_q", "cct_del_m", "cct_ins_m", "cct_del_c", "cct_ins_c",
     "cct_users", "cct_commit"}

\* variant: the DELETE of the QueryRecord row has run before the CREATE
CctCreateFail_record_deleted(p) ==
    /\ pc[p] = "cct_create"
    /\ manager[p].duckdb_connection
    /\ Returns(p, Raise(p, "DuckLakeError"))
    /\ op' = [op EXCEPT ![p].failed_step = pc[p]]
    /\ pc' = [pc EXCEPT ![p] = "done"]
    /\ snowducks_queries' = DeleteFrom(snowducks_queries, CctHash(p))
    /\ UNCHANGED <<clock, flock, manager, config, snowducks_query_metadata,
                   snowducks_cache_metadata, snowducks_users, storage, lastWrite,
                   lastEvent, canonVars>>

\* the CREATE OR REPLACE TABLE raises: the except branch raises DuckLakeError, and
\* snowflake_query wraps it in a DuckLakeError again
CctCreateFail(p) ==
    /\ pc[p] = "cct_create"
    /\ manager[p].duckdb_connection
    /\ Returns(p, Raise(p, "DuckLakeError"))
    /\ op' = [op EXCEPT ![p].failed_step = pc[p]]
    /\ pc' = [pc EXCEPT ![p] = "done"]
    /\ UNCHANGED <<clock, flock, manager, config, catalogVars, lastWrite,
                   lastEvent, canonVars>>

\* a statement after the CREATE raises: the same except branch, which raises
\* DuckLakeError and undoes nothing of what the statements before it have done
CctStatementFail(p) ==
    /\ pc[p] \in CctAfterMaterialisation
    /\ Returns(p, Raise(p, "DuckLakeError"))
    /\ op' = [op EXCEPT ![p].failed_step = pc[p]]
    /\ pc' = [pc EXCEPT ![p] = "done"]
    /\ UNCHANGED <<clock, flock, manager, config, catalogVars, lastWrite,
                   lastEvent, canonVars>>

-----------------------------------------------------------------------------
(* Maintenance operations *)

Maintenance(p, at) ==
    /\ pc[p] = at
    /\ pc' = [pc EXCEPT ![p] = "done"]
    /\ op' = [op EXCEPT ![p].seen_cache = snowducks_cache_metadata,
                        ![p].seen_storage = storage]
    /\ UNCHANGED <<clock, flock, manager, config, snowducks_queries,
                   snowducks_query_metadata, snowducks_users, lastWrite, lastEvent,
                   canonVars>>

\* DuckLakeManager.cleanup_expired_cache
CleanupExpiredCache(p) ==
    /\ Maintenance(p, "cleanup")
    /\ IF ~manager[p].duckdb_connection
       THEN /\ Returns(p, Return(p, None, "none", 0))
            /\ UNCHANGED <<snowducks_cache_metadata, storage>>
       ELSE LET expired == expired_queries(p)
            IN  /\ storage' = storage \ TablesOf(expired)
                /\ snowducks_cache_metadata' =
                      SelectSeq(snowducks_cache_metadata,
                                LAMBDA r : r.query_hash \notin HashesOf(expired))
                /\ Returns(p, Return(p, None, "none", Len(expired)))

\* the rows of a batch whose DROP TABLE did not raise
DroppedOf(rows, failed) == SelectSeq(rows, LAMBDA r : r.table_name \notin failed)

\* variant: the exception of a DROP TABLE ends the loop and propagates
CleanupDropFails_aborts(p, failed) ==
    /\ pc[p] = "cleanup"
    /\ pc' = [pc EXCEPT ![p] = "done"]
    /\ manager[p].duckdb_connection
    /\ failed # {} /\ failed \subseteq TablesOf(expired_queries(p))
    /\ op' = [op EXCEPT ![p].seen_cache = snowducks_cache_metadata,
                        ![p].seen_storage = storage,
                        ![p].failed_drop = failed]
    /\ Returns(p, Raise(p, "DuckLakeError"))
    /\ UNCHANGED <<clock, flock, manager, config, catalogVars, lastWrite, lastEvent,
                   canonVars>>

\* DuckLakeManager.cleanup_expired_cache when the DROP TABLE of some of the
\* selected entries raises: the except branch of the loop prints a warning, the
\* entry keeps its table and its row and is not counted
CleanupDropFails(p, failed) ==
    /\ pc[p] = "cleanup"
    /\ pc' = [pc EXCEPT ![p] = "done"]
    /\ manager[p].duckdb_connection
    /\ failed # {} /\ failed \subseteq TablesOf(expired_queries(p))
    /\ op' = [op EXCEPT ![p].seen_cache = snowducks_cache_metadata,
                        ![p].seen_storage = storage,
                        ![p].failed_drop = failed]
    /\ LET dropped == DroppedOf(expired_queries(p), failed)
       IN  /\ storage' = storage \ TablesOf(dropped)
           /\ snowducks_cache_metadata' =
                 SelectSeq(snowducks_cache_metadata,
                           LAMBDA r : r.query_hash \notin HashesOf(dropped))
           /\ Returns(p, Return(p, None, "none", Len(dropped)))
    /\ UNCHANGED <<clock, flock, manager, config, snowducks_queries,
                   snowducks_query_metadata, snowducks_users, lastWrite, lastEvent,
                   canonVars>>

\* DuckLakeManager.clear_all_cache when the DROP TABLE of some entries raises: the
\* except branch prints a warning, the table stays and is not counted; the DELETE
\* after the loop removes every row
ClearAllDropFails(p, failed) ==
    /\ pc[p] = "clear_cache"
    /\ pc' = [pc EXCEPT ![p] = "done"]
    /\ op[p].cache_key = None
    /\ manager[p].duckdb_connection
    /\ failed # {} /\ failed \subseteq TablesOf(snowducks_cache_metadata)
    /\ op' = [op EXCEPT ![p].seen_cache = snowducks_cache_metadata,
                        ![p].seen_storage = storage,
                        ![p].failed_drop = failed]
    /\ LET dropped == DroppedOf(snowducks_cache_metadata, failed)
       IN  /\ storage' = storage \ TablesOf(dropped)
           /\ snowducks_cache_metadata' = <<>>
           /\ Returns(p, Return(p, None, "none", Len(dropped)))
    /\ UNCHANGED <<clock, flock, manager, config, snowducks_queries,
                   snowducks_query_metadata, snowducks_users, lastWrite, lastEvent,
                   canonVars>>

\* core.clear_cache: a given key is only printed, no key clears everything
\* (DuckLakeManager.clear_all_cache)
ClearCache(p) ==
    /\ Maintenance(p, "clear_cache")
    /\ IF op[p].cache_key # None
       THEN /\ Returns(p, Return(p, None, "none", 1))
            /\ UNCHANGED <<snowducks_cache_metadata, storage>>
       ELSE IF ~manager[p].duckdb_connection
       THEN /\ Returns(p, Return(p, None, "none", 0))
            /\ UNCHANGED <<snowducks_cache_metadata, storage>>
       ELSE /\ storage' = storage \ TablesOf(snowducks_cache_metadata)
            /\ snowducks_cache_metadata' = <<>>
            /\ Returns(p, Return(p, None, "none", Len(snowducks_cache_metadata)))

\* DuckLakeManager.clear_cache_by_hash: DROP TABLE IF EXISTS "<schema.table>"
ClearCacheByHash(p) ==
    /\ Maintenance(p, "clear_by_hash")
    /\ IF ~manager[p].duckdb_connection
       THEN /\ Returns(p, Return(p, None, "none", 0))
            /\ UNCHANGED <<snowducks_cache_metadata, storage>>
       ELSE LET tables_to_drop == RowsOf(snowducks_cache_metadata, op[p].cache_key[1])
            IN  /\ storage' = storage \ {QuotedName(t) : t \in TablesOf(tables_to_drop)}
                /\ snowducks_cache_metadata' =
                      DeleteFrom(snowducks_cache_metadata, op[p].cache_key[1])
                /\ Returns(p, Return(p, None, "none", Len(tables_to_drop)))

-----------------------------------------------------------------------------
(* The caller takes the result; the process ends; the environment *)

\* what the history keeps of a finished call: a miss written into an empty catalog
EventOf(p) ==
    IF result[p].kind = "return" /\ result[p].status = "miss" /\ op[p].empty_before
    THEN [kind |-> "first_miss", query_hash |-> result[p].table[1].table,
          limit |-> op[p].limit]
    ELSE [NoEvent EXCEPT !.kind = "other"]

Ack(p) ==
    /\ pc[p] = "done"
    /\ pc' = [pc EXCEPT ![p] = "idle"]
    /\ op' = [op EXCEPT ![p] = OpNone]
    /\ result' = [result EXCEPT ![p] = NoResult]
    /\ lastEvent' = EventOf(p)
    /\ UNCHANGED <<clock, flock, manager, config, catalogVars, lastWrite, canonVars>>

\* the process exits: the operating system closes its files and drops its lock
Exit(p) ==
    /\ pc[p] = "idle"
    /\ manager[p].state # "none"
    /\ manager' = [manager EXCEPT ![p] = NoManager]
    /\ flock' = flock \ {p}
    /\ UNCHANGED <<clock, config, pc, op, result, catalogVars, lastWrite, lastEvent,
                   canonVars>>

\* an hour passes; the statements a process runs on the local catalog take no
\* such time, the remote fetch may
Tick ==
    /\ \A p \in Procs : pc[p] \in {"idle", "sq_fetch"}
    /\ clock < MaxTime
    /\ clock' = clock + 1
    /\ UNCHANGED <<flock, manager, config, pc, op, result, catalogVars, lastWrite,
                   lastEvent, canonVars>>

\* a table is deleted from the storage behind the cache's back; the history no
\* longer counts a call in flight as one that found the cache empty and untouched
ExternalDrop(t) ==
    /\ ~Observed
    /\ t \in storage
    /\ storage' = storage \ {t}
    /\ lastEvent' = [NoEvent EXCEPT !.kind = "other"]
    /\ op' = [p \in Procs |-> [op[p] EXCEPT !.empty_before = FALSE]]
    /\ UNCHANGED <<clock, flock, manager, config, pc, result, snowducks_queries,
                   snowducks_query_metadata, snowducks_cache_metadata,
                   snowducks_users, lastWrite, canonVars>>

-----------------------------------------------------------------------------
(* Inputs *)

Fingerprints == {_generate_query_hash(q) : q \in CacheQueries}

Configs == {Config(a, FALSE, FALSE) : a \in 0..MaxAge}
              \cup {Config(1, TRUE, FALSE), Config(1, FALSE, TRUE)}
Limits == {Some(-1), Some(5)}
RowCounts == {1}
ExecutionTimes == {5}

-----------------------------------------------------------------------------
(* The cache as one process uses it *)

InitWith(workloads, configs) ==
    /\ clock = 0
    /\ flock = {}
    /\ manager = [p \in Procs |-> NoManager]
    /\ config \in [Procs -> configs]
    /\ pc = [p \in Procs |-> "idle"]
    /\ op = [p \in Procs |-> OpNone]
    /\ result = [p \in Procs |-> NoResult]
    /\ snowducks_queries = <<>>
    /\ snowducks_query_metadata = <<>>
    /\ snowducks_cache_metadata = <<>>
    /\ snowducks_users = <<>>
    /\ storage = {}
    /\ lastWrite = [h \in Fingerprints |-> None]
    /\ lastEvent = NoEvent
    /\ \E w \in workloads : qa = w[1] /\ qb = w[2]

\* every configuration with texts of one fingerprint, the configuration of the
\* defaults' shape with the others
Scenarios ==
    ({<<QA, QA_fmt>>} \X Configs)
       \cup ((Workloads \ {<<QA, QA_fmt>>}) \X {Config(1, FALSE, FALSE)})

Init == \E s \in Scenarios : InitWith({s[1]}, {s[2]})

\* DuckLakeManager.get_cache_stats: the dictionary returned
RECURSIVE SumOf(_, _)
SumOf(rows, i) == IF i > Len(rows) THEN 0 ELSE rows[i].row_count + SumOf(rows, i + 1)

get_cache_stats(p) ==
    IF ~manager[p].duckdb_connection THEN [k \in {} |-> 0]
    ELSE [table_count |-> Len(snowducks_cache_metadata),
          total_rows |-> SumOf(snowducks_cache_metadata, 1),
          total_size_bytes |-> 0]

\* the keys cli._handle_stats reads from the dictionary
StatsKeysRead ==
    {"total_queries", "total_cache_entries", "cache_max_age_hours",
     "ducklake_metadata_path", "ducklake_data_path"}

\* the stats command of the CLI starts
cli_stats(p) == Start(p, [OpNone EXCEPT !.name = "cli_stats"])

\* cli._handle_stats: prints the fields and returns 0; an exception (a missing
\* key) is caught, reported, and the command returns 1
_handle_stats(p) ==
    /\ pc[p] = "stats"
    /\ Returns(p, Return(p, None, "none",
                         IF StatsKeysRead \subseteq DOMAIN get_cache_stats(p)
                         THEN 0 ELSE 1))
    /\ pc' = [pc EXCEPT ![p] = "done"]
    /\ UNCHANGED <<clock, flock, manager, config, op, catalogVars, lastWrite,
                   lastEvent, canonVars>>

\* the steps of an operation that has been started
Run(p) ==
    \/ _get_ducklake_manager(p)
    \/ AcquireLockSuccess(p)
    \/ InitDucklakeOk(p)
    \/ InitDucklakeFail(p)
    \/ Validate(p)
    \/ Lookup(p)
    \/ Egress(p)
    \/ \E n \in RowCounts, ms \in ExecutionTimes : FetchOk(p, n, ms)
    \/ FetchFail(p)
    \/ CctCreateTable(p)
    \/ CctDeleteQuery(p)
    \/ CctInsertQuery(p)
    \/ CctDeleteMetadata(p)
    \/ CctInsertMetadata(p)
    \/ CctDeleteCache(p)
    \/ CctInsertCache(p)
    \/ CctUpdateUserStats(p)
    \/ CctCommit(p)
    \/ CleanupExpiredCache(p)
    \/ ClearCache(p)
    \/ ClearCacheByHash(p)
    \/ Ack(p)

Next ==
    \/ \E f \in BOOLEAN : snowflake_query("p1", qa, None, f)
    \/ snowflake_query("p1", qb, None, FALSE)
    \/ \E l \in Limits : snowflake_query("p1", qa, l, FALSE)
    \/ cleanup_expired_cache("p1")
    \/ \E k \in {None, Some(_generate_query_hash(qa))} : clear_cache("p1", k)
    \/ clear_cache_by_hash_call("p1", _generate_query_hash(qa))
    \/ cli_stats("p1")
    \/ _handle_stats("p1")
    \/ Run("p1")
    \/ Tick
    \/ \E t \in storage : ExternalDrop(t)

Spec == Init /\ [][Next]_vars

-----------------------------------------------------------------------------
(* One process on one catalog whose statements may raise *)

FailConfigs == {Config(1, FALSE, FALSE)}

InitFail == InitWith({<<QA, QA>>}, FailConfigs)

NextFail ==
    \/ \E f \in BOOLEAN : snowflake_query("p1", qa, None, f)
    \/ cleanup_expired_cache("p1")
    \/ clear_cache("p1", None)
    \/ clear_cache_by_hash_call("p1", _generate_query_hash(qa))
    \/ CctCreateFail("p1")
    \/ CctStatementFail("p1")
    \/ Run("p1")
    \/ Tick

SpecFail == InitFail /\ [][NextFail]_vars

-----------------------------------------------------------------------------
(* One process on a catalog of two entries whose DROP TABLE may raise *)

BulkConfigs == {Config(0, FALSE, FALSE)}

InitBulk == InitWith({<<QA, QL1>>}, {Config(1, FALSE, FALSE)})

NextBulk ==
    \/ snowflake_query("p1", qa, None, FALSE)
    \/ snowflake_query("p1", qb, None, FALSE)
    \/ cleanup_expired_cache("p1")
    \/ clear_cache("p1", None)
    \/ clear_cache_by_hash_call("p1", _generate_query_hash(qa))
    \/ \E c \in BulkConfigs : configure("p1", c)
    \/ ConfigureDone("p1")
    \/ \E failed \in SUBSET TablesOf(snowducks_cache_metadata) :
          \/ CleanupDropFails("p1", failed)
          \/ ClearAllDropFails("p1", failed)
    \/ Run("p1")
    \/ Tick

SpecBulk == InitBulk /\ [][NextBulk]_vars

-----------------------------------------------------------------------------
(* Two processes on one catalog: the lock *)

LockConfigs == {Config(1, FALSE, FALSE)}

InitLock == InitWith({<<QA, QA>>}, LockConfigs)

NextLock ==
    \E p \in Procs :
          \/ snowflake_query(p, qa, None, FALSE)
          \/ cleanup_expired_cache(p)
          \/ clear_cache(p, None)
          \/ clear_cache_by_hash_call(p, _generate_query_hash(qa))
          \/ \E c \in LockConfigs : configure(p, c)
          \/ Run(p)
          \/ ConfigureDone(p)
          \/ AcquireLockRetry(p)
          \/ AcquireLockTimeout(p)
          \/ Exit(p)

SpecLock == InitLock /\ [][NextLock]_vars

-----------------------------------------------------------------------------
(* Query texts that differ in layout: runs of whitespace and letter case *)

BaseQueries == {<<"a", " ", "b">>, <<"A", "b">>}

InsertAt(s, i, c) == SubSeq(s, 1, i - 1) \o <<c>> \o SubSeq(s, i, Len(s))
RemoveAt(s, i) == SubSeq(s, 1, i - 1) \o SubSeq(s, i + 1, Len(s))

\* position i of s lies in a run of whitespace or at an end of the text
InRun(s, i) ==
    \/ i = 1
    \/ i = Len(s) + 1
    \/ i > 1 /\ IsSpace(s[i - 1])
    \/ i <= Len(s) /\ IsSpace(s[i])

\* a run of whitespace grows by one character
ExtendRun(i, c) ==
    /\ Len(qb) < MaxLen
    /\ InRun(qb, i)
    /\ qb' = InsertAt(qb, i, c)
    /\ UNCHANGED <<clock, flock, manager, config, pc, op, result, catalogVars,
                   lastWrite, lastEvent, qa>>

\* a run of whitespace shrinks by one character; a run inside the text keeps one
ShrinkRun(i) ==
    /\ IsSpace(qb[i])
    /\ \/ \A j \in 1..i : IsSpace(qb[j])
       \/ \A j \in i..Len(qb) : IsSpace(qb[j])
       \/ i > 1 /\ IsSpace(qb[i - 1])
       \/ i < Len(qb) /\ IsSpace(qb[i + 1])
    /\ qb' = RemoveAt(qb, i)
    /\ UNCHANGED <<clock, flock, manager, config, pc, op, result, catalogVars,
                   lastWrite, lastEvent, qa>>

\* a letter changes its case
ToggleCase(i) ==
    /\ IsUpper(qb[i]) \/ IsLowerLetter(qb[i])
    /\ qb' = [qb EXCEPT ![i] = IF IsUpper(@) THEN ToLower(@) ELSE ToUpper(@)]
    /\ UNCHANGED <<clock, flock, manager, config, pc, op, result, catalogVars,
                   lastWrite, lastEvent, qa>>

InitCanon == InitWith({<<q, q>> : q \in BaseQueries}, {Config(1, FALSE, FALSE)})

NextCanon ==
    \/ \E i \in 1..(Len(qb) + 1), c \in WhitespaceChars : ExtendRun(i, c)
    \/ \E i \in 1..Len(qb) : ShrinkRun(i)
    \/ \E i \in 1..Len(qb) : ToggleCase(i)

SpecCanon == InitCanon /\ [][NextCanon]_vars

-----------------------------------------------------------------------------
(* Properties *)

SchemaTable(query_text) == FqName(_get_schema_name, _generate_query_hash(query_text))

\* p has just decided between hit and miss for its query
Hit(p) ==
    /\ pc[p] = "done"
    /\ result[p].kind = "return"
    /\ result[p].status = "hit"
Missed(p) == pc[p] = "sq_miss"

ForceRefresh(p) == op[p].force_refresh \/ config[p].cache_force_refresh

\* C1: after a write at time t with pinned max-age M > 0, resolving a
\* formatting-equivalent query while the table is present is a hit on the table
\* the write returned when now - t < M and no force refresh is set, a miss otherwise
C1_FreshnessWindow ==
    \A p \in Procs : \A h \in Fingerprints :
        (/\ Hit(p) \/ Missed(p)
         /\ lastWrite[h] # None
         /\ normalize_query_text(lastWrite[h][1].query_text)
               = normalize_query_text(op[p].query_text)
         /\ lastWrite[h][1].max_age > 0
         /\ lastWrite[h][1].table \in storage)
        => IF clock - lastWrite[h][1].t < lastWrite[h][1].max_age /\ ~ForceRefresh(p)
           THEN Hit(p) /\ result[p].table = Some(lastWrite[h][1].table)
           ELSE Missed(p)

\* a text in another layout is served, one hour after the write, from the table
\* written for max-age two
C1_Witness ==
    /\ Hit("p1")
    /\ op["p1"].query_text = QA_fmt
    /\ lastWrite[_generate_query_hash(QA)] # None
    /\ lastWrite[_generate_query_hash(QA)][1].query_text = QA
    /\ lastWrite[_generate_query_hash(QA)][1].max_age = 2
    /\ clock - lastWrite[_generate_query_hash(QA)][1].t = 1
    /\ result["p1"].table = Some(lastWrite[_generate_query_hash(QA)][1].table)

C9_LayoutInvariant ==
    /\ normalize_query_text(qa) = normalize_query_text(qb)
    /\ generate_normalized_query_hash(qa) = generate_normalized_query_hash(qb)
    /\ generate_normalized_query_hash(qb) = generate_query_hash(normalize_query_text(qb))

C9_Witness ==
    /\ qa = <<"a", " ", "b">>
    /\ qb = <<"\t", "A", " ", "\n", "B">>

\* p takes a step
Acts(p) == pc'[p] # pc[p] \/ op'[p] # op[p]

\* p's lookup reads the catalog to decide between hit and miss
ChecksFreshness(p) ==
    /\ pc[p] = "sq_lookup"
    /\ Acts(p)
    /\ ~op[p].force_refresh
    /\ manager[p].duckdb_connection

\* C3: at most one process holds the lock, and every step that changes the
\* catalog or the tables, and every freshness check that decides hit or miss, is
\* taken by the process that holds the lock
C3_LockDiscipline ==
    [][/\ Cardinality(flock') <= 1
       /\ \A p \in Procs :
             (Acts(p) /\ catalogVars' # catalogVars) \/ ChecksFreshness(p)
                => flock = {p}]_vars

\* one process is in the middle of a write while the other one retries the lock
C3_Witness ==
    /\ pc["p1"] = "cct_ins_c"
    /\ flock = {"p1"}
    /\ pc["p2"] = "acquire_lock"
    /\ op["p2"].name = "snowflake_query"
    /\ op["p2"].attempt >= 1

Wrote(p) ==
    /\ pc[p] = "done"
    /\ op[p].name = "snowflake_query"
    /\ result[p].kind = "return"
    /\ result[p].status = "miss"

\* C4: no fingerprint ever has two rows in the CacheEntry, QueryRecord or
\* QueryLimitMetadata table, and when a write has returned each table holds one
\* row for the fingerprint, with the values of that write
C4_OneRowPerFingerprint ==
    /\ \A h \in Fingerprints :
          /\ Len(RowsOf(snowducks_queries, h)) <= 1
          /\ Len(RowsOf(snowducks_query_metadata, h)) <= 1
          /\ Len(RowsOf(snowducks_cache_metadata, h)) <= 1
    /\ \A p \in Procs :
          Wrote(p)
             => /\ RowsOf(snowducks_queries, CctHash(p))
                     = <<QueryRecord(p, CctHash(p), CctMetadata(p), op[p].now,
                                     op[p].row_count, op[p].execution_time_ms)>>
                /\ RowsOf(snowducks_query_metadata, CctHash(p))
                     = <<QueryLimitMetadata(CctHash(p), CctMetadata(p), op[p].now)>>
                /\ RowsOf(snowducks_cache_metadata, CctHash(p))
                     = <<CacheEntry(p, CctHash(p), CctTable(p), op[p].now,
                                    op[p].row_count)>>

\* a process has written a fingerprint that was in the catalog before, while the
\* other one, resolving the same text, retries the lock
C4_Witness ==
    /\ Wrote("p2")
    /\ ~op["p2"].empty_before
    /\ pc["p1"] = "acquire_lock"
    /\ op["p1"].name = "snowflake_query"
    /\ op["p1"].query_text = op["p2"].query_text
    /\ op["p1"].attempt >= 1

LockTimedOut(p) ==
    /\ pc[p] = "done"
    /\ result[p].kind = "raise"
    /\ result[p].error = "DuckLakeError"
    /\ op[p].attempt = max_attempts - 1

\* C5: the lock loop makes at most 30 attempts and has slept once for each
\* failed attempt that another one follows; each of its steps either leaves the
\* loop or counts one more attempt, so it ends: with the lock, or after the 30th
\* failure with an error, and then the manager holds neither the lock nor a
\* connection and the catalog is not touched
C5_BoundedLockLoop ==
    [][\A p \in Procs :
          /\ op'[p].attempt <= max_attempts - 1
          /\ op'[p].sleeps = op'[p].attempt
          /\ pc[p] = "acquire_lock" /\ Acts(p)
                => \/ /\ pc'[p] = "acquire_lock"
                      /\ op'[p].attempt = op[p].attempt + 1
                   \/ /\ pc'[p] = "init_ducklake"
                      /\ p \in flock'
                   \/ /\ LockTimedOut(p)'
                      /\ op[p].attempt = max_attempts - 1
                      /\ flock \ {p} # {}
                      /\ catalogVars' = catalogVars
          /\ LockTimedOut(p)'
                => /\ p \notin flock'
                   /\ ~manager'[p].duckdb_connection
                   /\ ~op'[p].building.duckdb_connection]_vars

\* the 30th attempt has failed after 29 sleeps while the other process holds the lock
C5_Witness ==
    /\ LockTimedOut("p2")
    /\ op["p2"].sleeps = max_attempts - 1
    /\ flock = {"p1"}

\* cleanup_expired_cache has returned to p
Cleaned(p) ==
    /\ pc[p] = "done"
    /\ op[p].name = "cleanup_expired_cache"
    /\ result[p].kind = "return"
    /\ manager[p].duckdb_connection

\* the entries cleanup found whose expires_at is earlier than the current time
PastEntries(p) ==
    SelectSeq(op[p].seen_cache,
              LAMBDA r : r.expires_at # None /\ r.expires_at[1] < clock)

\* C6: cleanup_expired_cache drops the table and deletes the entry of exactly
\* the entries whose expires_at is earlier than the current time, returns their
\* number and leaves the other entries and their tables as they were
C6_CleanupExact ==
    \A p \in Procs :
        Cleaned(p)
           => /\ snowducks_cache_metadata
                    = SelectSeq(op[p].seen_cache,
                                LAMBDA r : r.query_hash \notin HashesOf(PastEntries(p)))
              /\ storage = op[p].seen_storage \ TablesOf(PastEntries(p))
              /\ result[p].count = Len(PastEntries(p))

\* p resolves the text whose first resolve, into an empty catalog, was the
\* last thing that happened to the cache
ResolvesAgain(p) ==
    /\ Hit(p) \/ Missed(p)
    /\ lastEvent.kind = "first_miss"
    /\ lastEvent.query_hash = _generate_query_hash(op[p].query_text)
    /\ ~ForceRefresh(p)
    /\ lastWrite[lastEvent.query_hash] # None

UsageCounts(query_hash) ==
    [i \in 1..Len(RowsOf(snowducks_queries, query_hash)) |->
        RowsOf(snowducks_queries, query_hash)[i].usage_count]

\* the second resolve is a hit on the table of the first, nothing was written
\* again and the usage count is 2
SecondIsHit(p) ==
    /\ Hit(p)
    /\ result[p].table = Some(lastWrite[lastEvent.query_hash][1].table)
    /\ UsageCounts(lastEvent.query_hash) = <<2>>
    /\ RowsOf(snowducks_queries, lastEvent.query_hash)[1].last_refresh
          = Some(lastWrite[lastEvent.query_hash][1].t)
    /\ Len(RowsOf(snowducks_cache_metadata, lastEvent.query_hash)) = 1

FirstIsMiss(p) ==
    Wrote(p) /\ op[p].empty_before /\ ~ForceRefresh(p)
       => UsageCounts(CctHash(p)) = <<1>>

\* C7 as stated: whatever the max-age, the resolve that immediately follows the
\* first one is a hit with usage count 2
C7_AsStated ==
    \A p \in Procs :
        /\ FirstIsMiss(p)
        /\ ResolvesAgain(p) /\ clock = lastWrite[lastEvent.query_hash][1].t
              => SecondIsHit(p)

\* C7: from an empty catalog and without force refresh the first resolve is a
\* miss that leaves usage count 1; the resolve that follows it, in any layout
\* of the text, before the max-age M > 0 pinned by the write has passed, is a
\* hit on the same table, writes nothing and leaves usage count 2
C7_SecondResolveHits ==
    \A p \in Procs :
        /\ FirstIsMiss(p)
        /\ (/\ ResolvesAgain(p)
            /\ lastWrite[lastEvent.query_hash][1].max_age > 0
            /\ clock - lastWrite[lastEvent.query_hash][1].t
                  < lastWrite[lastEvent.query_hash][1].max_age)
              => SecondIsHit(p)

C7_Witness ==
    /\ ResolvesAgain("p1")
    /\ SecondIsHit("p1")
    /\ op["p1"].query_text = QA_fmt
    /\ lastWrite[lastEvent.query_hash][1].query_text = QA

\* C8 as stated: the table of a hit or of a write is named by the fingerprint
\* of the text without its LIMIT clause
C8_AsStated ==
    \A p \in Procs :
        Hit(p) \/ Wrote(p)
           => result[p].table
                 = Some(FqName(_get_schema_name,
                               generate_query_hash_without_limit(op[p].query_text)))

\* C8: the table of a hit or of a write is named by the fingerprint of the
\* whole canonical text, LIMIT clause included; a hit is served only from a
\* table written for the same canonical text; the write records the text
\* without its LIMIT clause, and the limit value, in the catalog rows
C8_KeyIncludesLimit ==
    \A p \in Procs :
        /\ Hit(p) \/ Wrote(p)
              => result[p].table
                    = Some(FqName(_get_schema_name,
                                  generate_query_hash(normalize_query_text(op[p].query_text))))
        /\ Hit(p)
              => /\ lastWrite[result[p].table[1].table] # None
                 /\ normalize_query_text(lastWrite[result[p].table[1].table][1].query_text)
                       = normalize_query_text(op[p].query_text)
        /\ Wrote(p)
              => /\ RowsOf(snowducks_queries, CctHash(p))[1].query_text
                       = extract_limit_from_query(op[p].query_text)[1]
                 /\ RowsOf(snowducks_query_metadata, CctHash(p))[1].limit_value
                       = extract_limit_from_query(op[p].query_text)[2]

\* a text is written to a table of its own while the table of the text with
\* the other LIMIT value is in the storage
C8_Witness ==
    /\ Wrote("p1")
    /\ op["p1"].query_text = QL2
    /\ lastWrite[_generate_query_hash(QL1)] # None
    /\ SchemaTable(QL1) \in storage
    /\ result["p1"].table = Some(SchemaTable(QL2))
    /\ SchemaTable(QL2) # SchemaTable(QL1)
    /\ RowsOf(snowducks_queries, _generate_query_hash(QL2))[1].query_text = QA

\* the text of p's call is the written text with a semicolon appended
SemicolonAdded(p, written) == op[p].query_text = written \o <<";">>

\* C10 as stated: after a write of q, resolving 'q;' within max-age, with the
\* table present and no force refresh, is a hit on the table of q
C10_AsStated ==
    \A p \in Procs : \A h \in Fingerprints :
        (/\ Hit(p) \/ Missed(p)
         /\ lastWrite[h] # None
         /\ SemicolonAdded(p, lastWrite[h][1].query_text)
         /\ clock - lastWrite[h][1].t < lastWrite[h][1].max_age
         /\ lastWrite[h][1].table \in storage
         /\ ~ForceRefresh(p))
        => Hit(p) /\ result[p].table = Some(lastWrite[h][1].table)

\* C10: a trailing semicolon stays in the canonical text, so 'q;' and 'q' have
\* different canonical texts and fingerprints, and resolving 'q;' is a miss
\* unless 'q;' itself was written, whatever was written for 'q'
C10_SemicolonKept ==
    \A p \in Procs :
        (/\ Hit(p) \/ Missed(p)
         /\ op[p].query_text # <<>>
         /\ op[p].query_text[Len(op[p].query_text)] = ";")
        => LET q == op[p].query_text
               body == SubSeq(q, 1, Len(q) - 1)
           IN  /\ normalize_query_text(q) # normalize_query_text(body)
               /\ _generate_query_hash(q) # _generate_query_hash(body)
               /\ lastWrite[_generate_query_hash(q)] = None => Missed(p)

\* q was written and is fresh, its table is there, and 'q;' is a miss
C10_Witness ==
    /\ Missed("p1")
    /\ ~ForceRefresh("p1")
    /\ op["p1"].query_text = QA_semi
    /\ lastWrite[_generate_query_hash(QA)] # None
    /\ lastWrite[_generate_query_hash(QA)][1].query_text = QA
    /\ _is_cache_fresh("p1", _generate_query_hash(QA))
    /\ SchemaTable(QA) \in storage
    /\ lastWrite[_generate_query_hash(QA_semi)] = None

-----------------------------------------------------------------------------
(* Properties of the LIMIT clause in the fingerprints *)

LimitValues == {1, 2, 10}

\* the text with a trailing LIMIT clause, in two layouts
WithLimit(q, n) == q \o <<" ", "L", "I", "M", "I", "T", " ">> \o IntToStr(n)
WithLimitLayout(q, n) == q \o <<"\t", "l", "i", "m", "i", "t", " ", " ">> \o IntToStr(n)

\* C11: generate_normalized_query_hash tells apart two texts that differ in
\* their LIMIT value, and a text with a LIMIT clause from the text without it,
\* and gives one hash to a text with the same LIMIT in another layout
C11_LimitInFingerprint ==
    \A ha \in {[l \in LimitValues |->
                    generate_normalized_query_hash(WithLimit(qa, l))]},
       hb \in {[l \in LimitValues |->
                    generate_normalized_query_hash(WithLimitLayout(qb, l))]},
       plain \in {generate_normalized_query_hash(qb)} :
        \A l1 \in LimitValues, l2 \in LimitValues :
            /\ l1 # l2 => ha[l1] # hb[l2]
            /\ ha[l1] # plain
            /\ ha[l1] = hb[l1]

\* two layouts of one text: LIMIT 1 and limit 10 get different hashes
C11_Witness ==
    /\ qa = <<"a", " ", "b">>
    /\ qb = <<"A", "\t", " ", "B", " ">>
    /\ generate_normalized_query_hash(WithLimit(qa, 1))
          # generate_normalized_query_hash(WithLimitLayout(qb, 10))
    /\ generate_normalized_query_hash(WithLimit(qa, 10))
          = generate_normalized_query_hash(WithLimitLayout(qb, 10))

\* C12: generate_query_hash_without_limit gives one body fingerprint to the
\* texts that differ only in the value of their trailing LIMIT clause, the one
\* of the text without the clause; extract_limit_from_query reports each
\* text's own value; texts with different bodies get different body fingerprints
C12_BodyFingerprint ==
    \A ha \in {[l \in LimitValues |->
                    generate_query_hash_without_limit(WithLimit(qa, l))]},
       hb \in {[l \in LimitValues |->
                    generate_query_hash_without_limit(WithLimitLayout(qb, l))]},
       hx \in {generate_query_hash_without_limit(WithLimit(qa \o <<"x">>, 1))},
       body \in {generate_query_hash_without_limit(qb)},
       text \in {normalize_query_text(qb)} :
        /\ extract_limit_from_query(qb) = <<text, None>>
        /\ hx # body
        /\ \A l1 \in LimitValues :
               /\ ha[l1] = body
               /\ extract_limit_from_query(WithLimitLayout(qa, l1)) = <<text, <<l1>> >>
               /\ \A l2 \in LimitValues : ha[l1] = hb[l2] /\ hx # hb[l2]

C12_Witness ==
    /\ qa = <<"A", "b">>
    /\ qb = <<" ", "a", "B", "\n">>
    /\ extract_limit_from_query(WithLimit(qa, 2)) = <<<<"a", "b">>, <<2>> >>
    /\ extract_limit_from_query(WithLimitLayout(qb, 10)) = <<<<"a", "b">>, <<10>> >>
    /\ generate_query_hash_without_limit(WithLimit(qa, 2))
          = generate_query_hash_without_limit(WithLimitLayout(qb, 10))

-----------------------------------------------------------------------------
(* utils.py: cache table names *)

\* str.isalnum: not empty, every character a letter or a digit
str_isalnum(s) ==
    s # <<>> /\ \A i \in 1..Len(s) : IsDigit(s[i]) \/ IsUpper(s[i]) \/ IsLowerLetter(s[i])

\* str.islower: at least one cased character, no uppercase character
str_islower(s) ==
    /\ \E i \in 1..Len(s) : IsLowerLetter(s[i])
    /\ \A i \in 1..Len(s) : ~IsUpper(s[i])

is_valid_cache_table_name(table_name) ==
    /\ StartsWithAt(table_name, 1, <<"t", "_">>)
    /\ Len(table_name) = 18
    /\ str_isalnum(SubSeq(table_name, 3, Len(table_name)))
    /\ str_islower(SubSeq(table_name, 3, Len(table_name)))

extract_hash_from_table_name(table_name) ==
    IF ~is_valid_cache_table_name(table_name) THEN None
    ELSE Some(SubSeq(table_name, 3, Len(table_name)))

\* Table names under test: qa is a name generate_query_hash returns, qb a name
\* at most MaxEdits character edits away from it.  SHA-256 is outside the model,
\* so the digest prefix of an arbitrary text is any string of 16 hexadecimal
\* digits: the second template is generate_query_hash("SELECT 1086").
MaxEdits == 2

NameTemplates ==
    {generate_query_hash(QA),
     <<"t", "_", "2", "8", "9", "9", "0", "0", "0", "1", "4", "4", "3", "0", "9", "1",
       "4", "4">>}

NameChars == {"0", "g", "A", "_"}

Edits(a, b) ==
    LET n == IF Len(a) < Len(b) THEN Len(a) ELSE Len(b)
    IN  (Len(a) + Len(b) - 2 * n) + Cardinality({i \in 1..n : a[i] # b[i]})

EditName(name) ==
    /\ Edits(qa, name) <= MaxEdits
    /\ qb' = name
    /\ UNCHANGED <<clock, flock, manager, config, pc, op, result, catalogVars,
                   lastWrite, lastEvent, qa>>

InitName == InitWith({<<n, n>> : n \in NameTemplates}, {Config(1, FALSE, FALSE)})

NextName ==
    \/ \E i \in 1..Len(qb) : \E c \in NameChars \ {qb[i]} :
          EditName([qb EXCEPT ![i] = c])
    \/ \E c \in NameChars : EditName(Append(qb, c))
    \/ qb # <<>> /\ EditName(SubSeq(qb, 1, Len(qb) - 1))

SpecName == InitName /\ [][NextName]_vars

-----------------------------------------------------------------------------
(* Properties of the cache table names *)

\* 't_' followed by exactly 16 lowercase hexadecimal digits
WellFormedName(name) ==
    /\ Len(name) = 18
    /\ name[1] = "t" /\ name[2] = "_"
    /\ \A i \in 3..18 : name[i] \in Range(HexDigits)

\* C13: generate_query_hash returns 't_' followed by 16 lowercase hexadecimal
\* digits, and is_valid_cache_table_name accepts every name of that shape the
\* hash can return, one whose 16 digits are all decimal included
C13_HashNamesValid ==
    /\ WellFormedName(generate_query_hash(qb))
    /\ WellFormedName(qb) => is_valid_cache_table_name(qb)

\* C14: is_valid_cache_table_name holds exactly of the names made of 't_' and 16
\* lowercase hexadecimal digits, and extract_hash_from_table_name returns the 16
\* digits of exactly those names and None of every other name
C14_ValidIffHex ==
    /\ is_valid_cache_table_name(qb) <=> WellFormedName(qb)
    /\ extract_hash_from_table_name(qb)
          = IF WellFormedName(qb) THEN Some(SubSeq(qb, 3, 18)) ELSE None

-----------------------------------------------------------------------------
(* Query texts for the single-statement guard: qb grows one character at a time *)

GuardChars == {"a", ";", "'", "-", "\n", " "}

InitGuard == InitWith({<< <<>>, <<>> >>}, {Config(1, FALSE, FALSE)})

NextGuard ==
    \E c \in GuardChars :
        /\ Len(qb) < MaxLen
        /\ qb' = Append(qb, c)
        /\ UNCHANGED <<clock, flock, manager, config, pc, op, result, catalogVars,
                       lastWrite, lastEvent, qa>>

SpecGuard == InitGuard /\ [][NextGuard]_vars

\* the text left once line comments, block comments and the contents of the
\* quoted literals are removed
WithoutCommentsAndLiterals(query) ==
    ReplaceQuoted(
        ReplaceQuoted(
            str_strip(CollapseSpaces(
                StripBlockComments(StripLineComments(query, 1, FALSE), 1), 1)),
            1, "'", <<"'", "'">>),
        1, "\"", <<"\"", "\"">>)

\* a ';' is left somewhere other than as the one last character
SeparatorRemains(query) ==
    \E t \in {str_strip(WithoutCommentsAndLiterals(query))} :
        \E i \in 1..Len(t) : t[i] = ";" /\ i # Len(t)

\* C15: _validate_single_query raises QueryError exactly when, with comments and
\* literal contents removed, a ';' is left anywhere other than as a single
\* trailing one
C15_RejectsIffSeparatorRemains ==
    _validate_single_query(qb) <=> ~SeparatorRemains(qb)

-----------------------------------------------------------------------------
(* Properties of the single-statement guard inside snowflake_query *)

\* p is in a snowflake_query call whose text holds more than one statement
MultiStatementCall(p) ==
    /\ op[p].name = "snowflake_query"
    /\ pc[p] # "idle"
    /\ ~_validate_single_query(op[p].query_text)

\* C16: a snowflake_query call on a multi-statement text only validates and
\* raises QueryError: it is never in the lock loop, in the catalog
\* initialisation, in the lookup, in the fetch or in the write, also when the
\* process has no manager yet
C16_RejectedBeforeIO ==
    \A p \in Procs :
        MultiStatementCall(p)
           => /\ pc[p] \in {"get_manager", "sq_validate", "done"}
              /\ pc[p] = "done" => result[p] = Raise(p, "QueryError")
              /\ manager[p].state = "none" => p \notin flock

-----------------------------------------------------------------------------
(* Properties of the freshness test *)

\* the QueryRecord of fingerprint h is younger than the max-age written with it
YoungRecord(h) ==
    \E i \in DOMAIN snowducks_queries :
        /\ snowducks_queries[i].query_hash = h
        /\ snowducks_queries[i].last_refresh # None
        /\ clock - snowducks_queries[i].last_refresh[1]
              < snowducks_queries[i].cache_max_age_hours

\* C17: while cache_force_refresh is set in the configuration, _is_cache_fresh is
\* false for every fingerprint and no resolve is a hit; _is_cache_fresh is false
\* too for a fingerprint without QueryRecord or with a null last_refresh
C17_ForceRefreshNeverFresh ==
    \A p \in Procs : \A h \in Fingerprints :
        /\ config[p].cache_force_refresh => ~_is_cache_fresh(p, h) /\ ~Hit(p)
        /\ RowsOf(snowducks_queries, h) = <<>> => ~_is_cache_fresh(p, h)
        /\ (\E i \in DOMAIN snowducks_queries :
               /\ snowducks_queries[i].query_hash = h
               /\ snowducks_queries[i].last_refresh = None)
              => ~_is_cache_fresh(p, h)

\* with the flag set, a resolve misses although the record is young and the
\* table is there
C17_Witness ==
    /\ config["p1"].cache_force_refresh
    /\ Missed("p1")
    /\ ~op["p1"].force_refresh
    /\ YoungRecord(_generate_query_hash(op["p1"].query_text))
    /\ SchemaTable(op["p1"].query_text) \in storage

-----------------------------------------------------------------------------
(* One process that changes its configuration between its operations *)

ConfigAges == {Config(1, FALSE, FALSE), Config(2, FALSE, FALSE)}

InitConfig == InitWith({<<QA, QA_fmt>>}, ConfigAges)

NextConfig ==
    \/ Next
    \/ \E c \in ConfigAges : configure("p1", c)
    \/ ConfigureDone("p1")

SpecConfig == InitConfig /\ [][NextConfig]_vars

\* C18: whether a resolve that reads the catalog finds a written entry fresh
\* depends on the max-age written with the entry, not on the max-age of the
\* configuration in force at the resolve
C18_PinnedMaxAge ==
    \A p \in Procs : \A h \in Fingerprints :
        (/\ Hit(p) \/ Missed(p)
         /\ h = _generate_query_hash(op[p].query_text)
         /\ lastWrite[h] # None
         /\ lastWrite[h][1].table \in storage
         /\ manager[p].duckdb_connection
         /\ ~ForceRefresh(p))
        => /\ Hit(p) <=> clock - lastWrite[h][1].t < lastWrite[h][1].max_age
           /\ \A i \in DOMAIN snowducks_queries :
                 snowducks_queries[i].query_hash = h
                    => snowducks_queries[i].cache_max_age_hours
                          = lastWrite[h][1].max_age

\* an entry written under max-age 2 is served one hour later under max-age 1
C18_Witness ==
    /\ Hit("p1")
    /\ config["p1"].cache_max_age_hours = 1
    /\ lastWrite[_generate_query_hash(QA)] # None
    /\ lastWrite[_generate_query_hash(QA)][1].max_age = 2
    /\ clock - lastWrite[_generate_query_hash(QA)][1].t = 1

-----------------------------------------------------------------------------
(* Properties of the clear of one fingerprint *)

\* p's clear of the one fingerprint it was given has run on an open catalog
SingleClearDone(p) ==
    /\ pc[p] = "done"
    /\ manager[p].duckdb_connection
    /\ op[p].name \in {"clear_cache", "clear_cache_by_hash"}
    /\ op[p].cache_key # None

\* C19: once the clear of fingerprint h has returned, the table of h is not in
\* the storage and no QueryRecord, QueryLimitMetadata or CacheEntry row of h is
\* left
C19_ClearOneRemovesEntry ==
    \A p \in Procs :
        SingleClearDone(p)
           => /\ FqName(_get_schema_name, op[p].cache_key[1]) \notin storage
              /\ RowsOf(snowducks_queries, op[p].cache_key[1]) = <<>>
              /\ RowsOf(snowducks_query_metadata, op[p].cache_key[1]) = <<>>
              /\ RowsOf(snowducks_cache_metadata, op[p].cache_key[1]) = <<>>

\* C20: the clear of a fingerprint that has no cache entry returns the count 0,
\* raises nothing and leaves the catalog and the storage as they were
C20_ClearOneOfNothing ==
    \A p \in Procs :
        (/\ SingleClearDone(p)
         /\ RowsOf(op[p].seen_cache, op[p].cache_key[1]) = <<>>
         /\ RowsOf(snowducks_queries, op[p].cache_key[1]) = <<>>)
        => /\ result[p].kind = "return"
           /\ result[p].count = 0
           /\ snowducks_cache_metadata = op[p].seen_cache
           /\ storage = op[p].seen_storage

-----------------------------------------------------------------------------
(* Properties of the clear of the whole cache *)

\* p's clear of the whole cache has run on an open catalog
ClearAllDone(p) ==
    /\ pc[p] = "done"
    /\ manager[p].duckdb_connection
    /\ op[p].name = "clear_cache"
    /\ op[p].cache_key = None

\* C21: once clear_all_cache has returned, every table the catalog recorded is
\* dropped, no QueryRecord, QueryLimitMetadata or CacheEntry row is left, and the
\* count returned is the number of entries there were
C21_ClearAllRemovesEverything ==
    \A p \in Procs :
        ClearAllDone(p)
           => /\ result[p].kind = "return"
              /\ result[p].count = Len(op[p].seen_cache)
              /\ storage \cap TablesOf(op[p].seen_cache) = {}
              /\ snowducks_cache_metadata = <<>>
              /\ snowducks_queries = <<>>
              /\ snowducks_query_metadata = <<>>

-----------------------------------------------------------------------------
(* Properties of the hit *)

\* p is about to look its query up and the lookup has all it needs to succeed
LookupSucceeds(p) ==
    /\ pc[p] = "sq_lookup"
    /\ manager[p].duckdb_connection
    /\ ~ForceRefresh(p)
    /\ YoungRecord(_generate_query_hash(op[p].query_text))
    /\ SchemaTable(op[p].query_text) \in storage

\* the usage statistics of a QueryRecord set aside
WithoutUsage(r) == [r EXCEPT !.last_used = 0, !.usage_count = 0]

\* C22: the step of a lookup that succeeds returns the cached table reference
\* with 'hit' at once, with no fetch from the remote and no write in between, and
\* changes nothing in the catalog but the usage statistics of that fingerprint
C22_HitTouchesOnlyUsage ==
    [][\A p \in Procs :
          (LookupSucceeds(p) /\ pc'[p] # pc[p])
             => /\ pc'[p] = "done"
                /\ result'[p].kind = "return"
                /\ result'[p].status = "hit"
                /\ result'[p].table = Some(SchemaTable(op[p].query_text))
                /\ UNCHANGED <<snowducks_query_metadata, snowducks_cache_metadata,
                               snowducks_users, storage, lastWrite>>
                /\ Len(snowducks_queries') = Len(snowducks_queries)
                /\ \A i \in DOMAIN snowducks_queries :
                      IF snowducks_queries[i].query_hash
                            = _generate_query_hash(op[p].query_text)
                      THEN WithoutUsage(snowducks_queries'[i])
                              = WithoutUsage(snowducks_queries[i])
                      ELSE snowducks_queries'[i] = snowducks_queries[i]]_vars

\* a hit served while the catalog holds the records of two fingerprints
C22_Witness ==
    /\ Hit("p1")
    /\ result["p1"].table = Some(SchemaTable(op["p1"].query_text))
    /\ Len(snowducks_queries) = 2
    /\ Len(snowducks_cache_metadata) = 2
    /\ \E i \in DOMAIN snowducks_queries :
          /\ snowducks_queries[i].query_hash = _generate_query_hash(op["p1"].query_text)
          /\ snowducks_queries[i].usage_count = 2

-----------------------------------------------------------------------------
(* Properties of the statement sent to the remote *)

\* the limit in force for p's call
LimitInForce(p) ==
    IF op[p].limit = None THEN config[p].default_row_limit ELSE op[p].limit[1]

\* the text ends in a LIMIT clause
EndsInLimitClause(query_text) == extract_limit_from_query(query_text)[2] # None

\* the statement the claim has p submit
StatementExpected(p) ==
    IF LimitInForce(p) # -1 /\ ~EndsInLimitClause(op[p].query_text)
    THEN WithLimit(op[p].query_text, LimitInForce(p))
    ELSE op[p].query_text

\* C23: a call submits its statement once, on the miss: the query text followed by
\* ' LIMIT L' when the limit in force L is not -1 and the text has no LIMIT clause,
\* the text unchanged when it has one or when L = -1 with unlimited egress allowed
C23_StatementSubmitted ==
    [][\A p \in Procs :
          /\ (pc'[p] = "sq_fetch" /\ pc[p] # "sq_fetch")
                => /\ pc[p] = "sq_miss"
                   /\ op'[p].final_query = StatementExpected(p)
                   /\ LimitInForce(p) = -1 => config[p].allow_unlimited_egress
          /\ (pc[p] = "sq_fetch" /\ pc'[p] # "sq_fetch")
                => pc'[p] \in {"cct_create", "done"}]_vars

\* the default limit is appended to a text without a LIMIT clause
C23_Witness ==
    /\ pc["p1"] = "sq_fetch"
    /\ op["p1"].query_text = QA
    /\ op["p1"].limit = None
    /\ op["p1"].final_query
          = <<"a", " ", "L", "I", "M", "I", "T", " ", "1", "0", "0", "0">>

-----------------------------------------------------------------------------
(* Properties of the egress check *)

\* p's snowflake_query call asks for every row while unlimited egress is off
UnlimitedRefused(p) ==
    /\ op[p].name = "snowflake_query"
    /\ LimitInForce(p) = -1
    /\ ~config[p].allow_unlimited_egress

\* C24 as stated: such a call ends in PermissionError whatever the cache holds
C24_AsStated ==
    \A p \in Procs :
        (/\ UnlimitedRefused(p)
         /\ pc[p] = "done"
         /\ manager[p].duckdb_connection
         /\ _validate_single_query(op[p].query_text))
        => result[p] = Raise(p, "PermissionError")

\* C24: a snowflake_query call with limit -1 while unlimited egress is off never
\* submits a statement nor writes, and once its lookup has missed it raises
\* PermissionError and leaves the catalog and the storage as they are
C24_EgressRefusedOnMiss ==
    [][\A p \in Procs :
          UnlimitedRefused(p)
             => /\ pc'[p] \in {"idle", "get_manager", "acquire_lock", "init_ducklake",
                               "sq_validate", "sq_lookup", "sq_miss", "done"}
                /\ (pc[p] = "sq_miss" /\ pc'[p] # "sq_miss")
                      => /\ pc'[p] = "done"
                         /\ result'[p] = Raise(p, "PermissionError")
                         /\ UNCHANGED catalogVars]_vars

\* the call is refused over a catalog that holds an entry
C24_Witness ==
    /\ UnlimitedRefused("p1")
    /\ pc["p1"] = "done"
    /\ result["p1"].error = "PermissionError"
    /\ Len(snowducks_queries) = 1
    /\ Len(snowducks_cache_metadata) = 1

-----------------------------------------------------------------------------
(* Properties of the stats command *)

\* C25: with the catalog reachable, get_cache_stats returns the number of
\* QueryRecord rows, the number of cache entries and the max-age policy under the
\* keys the stats command reads, and the command ends with status 0
C25_StatsExitZero ==
    \A p \in Procs :
        (/\ pc[p] = "done"
         /\ op[p].name = "cli_stats"
         /\ manager[p].duckdb_connection)
        => /\ result[p].kind = "return"
           /\ StatsKeysRead \subseteq DOMAIN get_cache_stats(p)
           /\ get_cache_stats(p)["total_queries"] = Len(snowducks_queries)
           /\ get_cache_stats(p)["total_cache_entries"] = Len(snowducks_cache_metadata)
           /\ get_cache_stats(p)["cache_max_age_hours"] = config[p].cache_max_age_hours
           /\ result[p].count = 0

-----------------------------------------------------------------------------
(* Properties of the pairing of QueryRecord and CacheEntry rows *)

\* no process is inside the statement sequence of create_cached_table
NoWriteInFlight == \A p \in Procs : pc[p] \in {"idle", "done"}

\* C26: in every state the operations leave behind, a fingerprint has a
\* QueryRecord row if and only if it has a CacheEntry row
C26_RecordIffEntry ==
    NoWriteInFlight
       => \A h \in Fingerprints :
             RowsOf(snowducks_queries, h) # <<>>
                <=> RowsOf(snowducks_cache_metadata, h) # <<>>

-----------------------------------------------------------------------------
(* Properties of a write whose statements raise *)

\* p's call has ended because a statement after the CREATE raised
FailedAfterMaterialisation(p) ==
    /\ pc[p] = "done"
    /\ op[p].name = "snowflake_query"
    /\ op[p].failed_step \in CctAfterMaterialisation

\* C27: when a statement of create_cached_table after the CREATE raises, the call
\* ends with a DuckLakeError and the catalog is as it was when the call began: a
\* call begun on an empty catalog leaves no row behind
C27_FailureLeavesNoPartialRows ==
    \A p \in Procs :
        FailedAfterMaterialisation(p)
           => /\ result[p].kind = "raise"
              /\ result[p].error = "DuckLakeError"
              /\ op[p].empty_before
                    => /\ snowducks_queries = <<>>
                       /\ snowducks_query_metadata = <<>>
                       /\ snowducks_cache_metadata = <<>>
                       /\ snowducks_users = <<>>

\* the rows of the four metadata tables
metadataRows == <<snowducks_queries, snowducks_query_metadata,
                  snowducks_cache_metadata, snowducks_users>>

\* C28: a create_cached_table that ends at its CREATE raises DuckLakeError and
\* adds, deletes and changes no row of the QueryRecord, QueryLimitMetadata,
\* CacheEntry and UserStats tables; a step of the write changes rows only once the
\* CREATE has succeeded and the table is in the storage
C28_MaterialisationFailure ==
    [][\A p \in Procs :
          /\ (pc[p] = "cct_create" /\ pc'[p] = "done")
                => /\ result'[p].kind = "raise"
                   /\ result'[p].error = "DuckLakeError"
                   /\ UNCHANGED metadataRows
          /\ (pc[p] \in {"cct_create"} \cup CctAfterMaterialisation
                  /\ metadataRows' # metadataRows)
                => /\ pc[p] \in CctAfterMaterialisation
                   /\ CctTable(p) \in storage]_vars

\* the CREATE of a rewrite has raised over a catalog that holds the rows of the
\* write before it
C28_Witness ==
    /\ pc["p1"] = "done"
    /\ op["p1"].failed_step = "cct_create"
    /\ result["p1"].error = "DuckLakeError"
    /\ RowsOf(snowducks_queries, _generate_query_hash(op["p1"].query_text)) # <<>>
    /\ RowsOf(snowducks_cache_metadata, _generate_query_hash(op["p1"].query_text)) # <<>>

-----------------------------------------------------------------------------
(* Properties of the usage statistics *)

\* the last_refresh values of the QueryRecord rows of fingerprint h
LastRefreshOf(rows, h) == {rows[i].last_refresh : i \in {j \in DOMAIN rows : rows[j].query_hash = h}}

\* C29: the step that serves a hit adds exactly 1 to the usage_count of the
\* QueryRecord of that fingerprint and sets its last_used to the time of the hit;
\* every other field of the row, the rows of the other fingerprints, the
\* QueryLimitMetadata and the CacheEntry rows stay as they were; and a step
\* changes the last_refresh of a fingerprint only inside create_cached_table
C29_HitCountsOnce ==
    [][/\ \A p \in Procs :
            (pc[p] = "sq_lookup" /\ pc'[p] = "done" /\ result'[p].status = "hit")
               => /\ UNCHANGED <<snowducks_query_metadata, snowducks_cache_metadata>>
                  /\ Len(snowducks_queries') = Len(snowducks_queries)
                  /\ \A i \in DOMAIN snowducks_queries :
                        IF snowducks_queries[i].query_hash
                              = _generate_query_hash(op[p].query_text)
                        THEN snowducks_queries'[i]
                                = [snowducks_queries[i] EXCEPT
                                      !.usage_count = @ + 1, !.last_used = clock]
                        ELSE snowducks_queries'[i] = snowducks_queries[i]
       /\ \A h \in Fingerprints :
            LastRefreshOf(snowducks_queries', h) # LastRefreshOf(snowducks_queries, h)
               => \E p \in Procs :
                     /\ pc[p] \in {"cct_del_q", "cct_ins_q"}
                     /\ CctHash(p) = h]_vars

\* a hit served an hour after the write: the record counts two uses, was last
\* used at the time of the hit and still carries the last_refresh of the write
C29_Witness ==
    /\ Hit("p1")
    /\ \E i \in DOMAIN snowducks_queries :
          /\ snowducks_queries[i].query_hash = _generate_query_hash(op["p1"].query_text)
          /\ snowducks_queries[i].usage_count = 2
          /\ snowducks_queries[i].last_used = 1
          /\ snowducks_queries[i].last_refresh = Some(0)
          /\ snowducks_queries[i].first_seen = 0

\* C30: a write over a fingerprint that already had a QueryRecord leaves the
\* record with a usage_count that is no smaller than before the write and with
\* the first_seen it had
C30_UsageMonotone ==
    \A p \in Procs :
        Wrote(p)
           => \A before \in op[p].seen_usage :
                 \A after \in UsageOf(snowducks_queries,
                                       _generate_query_hash(op[p].query_text)) :
                    /\ after[1] >= before[1]
                    /\ after[2] = before[2]

-----------------------------------------------------------------------------
(* Properties of the scope of the lock *)

\* C31: a process that is between operations does not hold the lock, and a
\* process whose operation gave up on the lock did so while another process was
\* inside an operation
C31_LockScopedToOperation ==
    /\ \A p \in Procs : pc[p] = "idle" => p \notin flock
    /\ \A p \in Procs :
          (pc[p] = "done" /\ LockTimedOut(p))
             => \E o \in Procs \ {p} : pc[o] # "idle"

-----------------------------------------------------------------------------
(* Properties of the expiry time *)

\* C32: the CacheEntry of a completed write at time t under max-age M has
\* expires_at = t + M when M > 0 and null when M = 0, and an entry whose
\* expires_at is null is still there, with its table, when cleanup_expired_cache
\* has returned
C32_ExpiresAt ==
    /\ \A h \in Fingerprints :
          lastWrite[h] # None
             => \A i \in DOMAIN snowducks_cache_metadata :
                   snowducks_cache_metadata[i].query_hash = h
                      => snowducks_cache_metadata[i].expires_at
                            = IF lastWrite[h][1].max_age > 0
                              THEN Some(lastWrite[h][1].t + lastWrite[h][1].max_age)
                              ELSE None
    /\ \A p \in Procs :
          Cleaned(p)
             => \A i \in DOMAIN op[p].seen_cache :
                   op[p].seen_cache[i].expires_at = None
                      => /\ \E j \in DOMAIN snowducks_cache_metadata :
                               snowducks_cache_metadata[j] = op[p].seen_cache[i]
                         /\ op[p].seen_cache[i].table_name \in op[p].seen_storage
                               => op[p].seen_cache[i].table_name \in storage

\* cleanup_expired_cache has returned two hours after a write under max-age 0:
\* the entry, whose expires_at is null, is still in the catalog
C32_Witness ==
    /\ Cleaned("p1")
    /\ result["p1"].count = 0
    /\ clock = 2
    /\ \E i \in DOMAIN snowducks_cache_metadata :
          /\ snowducks_cache_metadata[i].expires_at = None
          /\ snowducks_cache_metadata[i].created_at = 0
          /\ snowducks_cache_metadata[i].table_name \in storage

-----------------------------------------------------------------------------
(* The lock handle of a manager: _acquire_lock, _release_lock and close, called
   in any order and any number of times *)

MaxCalls == 2

\* variant: the OSError of the unlock or of the file close is not caught
_release_lock_uncaught(m, unlock_raises, close_raises) ==
    IF (m.lock_fd /\ unlock_raises) \/ (m.lock_file /\ close_raises)
    THEN [manager |-> m, raised |-> TRUE]
    ELSE [manager |-> [m EXCEPT !.lock_fd = FALSE, !.lock_file = FALSE],
          raised |-> FALSE]

\* DuckLakeManager._release_lock: fcntl.flock(LOCK_UN) if lock_fd is not None and
\* lock_file.close() if lock_file is not None, each inside try/except
\* (OSError, IOError): pass; then both handles are set to None
_release_lock(m, unlock_raises, close_raises) ==
    [manager |-> [m EXCEPT !.lock_fd = FALSE, !.lock_file = FALSE],
     raised |-> FALSE]

\* the outcome of the n-th call in a row of _release_lock or close
Released(name, n, raised) ==
    [NoResult EXCEPT !.kind = IF raised THEN "raise" ELSE "return",
                     !.name = name,
                     !.count = n,
                     !.error = IF raised THEN "OSError" ELSE "none"]

CallsInARow(p) ==
    IF result[p].name \in {"_release_lock", "close"} THEN result[p].count ELSE 0

handleVars == <<clock, config, pc, op, catalogVars, lastWrite, lastEvent, canonVars>>

\* DuckLakeManager.__init__ up to the call of _init_ducklake
NewDuckLakeManager(p) ==
    /\ manager[p].state \in {"none", "closed"}
    /\ manager' = [manager EXCEPT ![p] = NewManager]
    /\ result' = [result EXCEPT ![p] = NoResult]
    /\ UNCHANGED <<flock, handleVars>>

\* _acquire_lock: open(lock_path, "w") and fileno()
OpenLockFile(p) ==
    /\ manager[p].state = "new"
    /\ ~manager[p].lock_file
    /\ manager' = [manager EXCEPT ![p] = Opening]
    /\ result' = [result EXCEPT ![p] = NoResult]
    /\ UNCHANGED <<flock, handleVars>>

\* _acquire_lock: fcntl.flock(LOCK_EX | LOCK_NB) succeeds, then _init_ducklake
\* connects
FlockAndConnect(p) ==
    /\ manager[p].state = "new"
    /\ manager[p].lock_fd
    /\ flock_granted(p)
    /\ flock' = flock \cup {p}
    /\ manager' = [manager EXCEPT ![p] =
                      [@ EXCEPT !.state = "ready", !.duckdb_connection = TRUE,
                                !.ducklake_attached = TRUE]]
    /\ result' = [result EXCEPT ![p] = NoResult]
    /\ UNCHANGED handleVars

\* a call of _release_lock; closing the file gives up the lock of the process
ReleaseLock(p, unlock_raises, close_raises) ==
    /\ manager[p].state # "none"
    /\ CallsInARow(p) < MaxCalls
    /\ LET r == _release_lock(manager[p], unlock_raises, close_raises)
       IN  /\ manager' = [manager EXCEPT ![p] = r.manager]
           /\ flock' = IF r.manager.lock_file THEN flock ELSE flock \ {p}
           /\ result' = [result EXCEPT ![p] =
                            Released("_release_lock", CallsInARow(p) + 1, r.raised)]
    /\ UNCHANGED handleVars

\* a call of close: the connection is closed and set to None, then _release_lock
CloseManager(p, unlock_raises, close_raises) ==
    /\ manager[p].state # "none"
    /\ CallsInARow(p) < MaxCalls
    /\ LET r == _release_lock([manager[p] EXCEPT !.duckdb_connection = FALSE],
                              unlock_raises, close_raises)
       IN  /\ manager' = [manager EXCEPT ![p] =
                             [r.manager EXCEPT !.state =
                                 IF r.raised THEN @ ELSE "closed"]]
           /\ flock' = IF r.manager.lock_file THEN flock ELSE flock \ {p}
           /\ result' = [result EXCEPT ![p] =
                            Released("close", CallsInARow(p) + 1, r.raised)]
    /\ UNCHANGED handleVars

InitRelease == InitWith({<<QA, QA>>}, {Config(1, FALSE, FALSE)})

NextRelease ==
    \E p \in Procs :
        \/ NewDuckLakeManager(p)
        \/ OpenLockFile(p)
        \/ FlockAndConnect(p)
        \/ \E u \in BOOLEAN, c \in BOOLEAN : ReleaseLock(p, u, c)
        \/ \E u \in BOOLEAN, c \in BOOLEAN : CloseManager(p, u, c)

SpecRelease == InitRelease /\ [][NextRelease]_vars

\* C33: when _release_lock or close has been called, once or several times in a
\* row, with or without a lock acquired before and whether or not the unlock or
\* the file close failed, the call has returned without raising, both lock
\* handles of the manager are None, the process does not hold the lock, and one
\* more call of _release_lock changes nothing; after close the connection is
\* None as well, as in the close that configure performs
C33_ReleaseIdempotent ==
    \A p \in Procs :
        result[p].name \in {"_release_lock", "close"}
           => /\ result[p].kind = "return"
              /\ ~manager[p].lock_fd
              /\ ~manager[p].lock_file
              /\ p \notin flock
              /\ \A u \in BOOLEAN, c \in BOOLEAN :
                    _release_lock(manager[p], u, c)
                       = [manager |-> manager[p], raised |-> FALSE]
              /\ result[p].name = "close"
                    => /\ ~manager[p].duckdb_connection
                       /\ Closed(manager[p]) = manager[p]

\* p1 has released the lock it held with two calls in a row, and p2, which had
\* called _release_lock on a manager that never had a lock, holds the lock now
C33_Witness ==
    /\ result["p1"].name = "_release_lock"
    /\ result["p1"].count = 2
    /\ manager["p1"].state = "ready"
    /\ flock = {"p2"}

-----------------------------------------------------------------------------
(* Properties of the bulk operations when a DROP TABLE raises *)

\* a bulk operation of p has returned or raised after the DROP TABLE of some
\* entries raised
BulkDropFailed(p) ==
    /\ pc[p] = "done"
    /\ op[p].name \in {"cleanup_expired_cache", "clear_cache"}
    /\ op[p].failed_drop # {}

\* the entries the operation selected: the expired ones for the cleanup, all for
\* the clear
SelectedBy(p) ==
    IF op[p].name = "cleanup_expired_cache"
    THEN SelectSeq(op[p].seen_cache,
                   LAMBDA r : r.expires_at # None /\ r.expires_at[1] < cutoff_time(p))
    ELSE op[p].seen_cache

\* C34: when the DROP TABLE of some selected entries raises in
\* cleanup_expired_cache or clear_all_cache, the operation returns normally,
\* every other selected entry has lost its table and its CacheEntry row, and the
\* count returned is the number of those other entries
C34_DropFailureSkipped ==
    \A p \in Procs :
        BulkDropFailed(p)
           => /\ result[p].kind = "return"
              /\ \A i \in DOMAIN SelectedBy(p) :
                    SelectedBy(p)[i].table_name \notin op[p].failed_drop
                       => /\ SelectedBy(p)[i].table_name \notin storage
                          /\ RowsOf(snowducks_cache_metadata,
                                    SelectedBy(p)[i].query_hash) = <<>>
              /\ result[p].count
                    = Cardinality({i \in DOMAIN SelectedBy(p) :
                                     SelectedBy(p)[i].table_name \notin op[p].failed_drop})

\* the cleanup selected two entries with their tables, one DROP TABLE raised and
\* the other entry was removed and counted
C34_Witness ==
    /\ BulkDropFailed("p1")
    /\ op["p1"].name = "cleanup_expired_cache"
    /\ Len(SelectedBy("p1")) = 2
    /\ TablesOf(SelectedBy("p1")) \subseteq op["p1"].seen_storage
    /\ Cardinality(op["p1"].failed_drop) = 1
    /\ result["p1"].count = 1
    /\ Len(snowducks_cache_metadata) = 1

-----------------------------------------------------------------------------
(* Properties of the extraction of the LIMIT clause *)

\* the layouts of one text, to which the LIMIT clauses are appended
InitLimit == InitWith({<<q, q>> : q \in {<<"A", "b">>}}, {Config(1, FALSE, FALSE)})

SpecLimit == InitLimit /\ [][NextCanon]_vars

\* the text with a trailing LIMIT n OFFSET m clause
WithLimitOffset(q, n, m) ==
    WithLimitLayout(q, n) \o <<" ", "O", "F", "F", "S", "E", "T", "\t">> \o IntToStr(m)

\* the text with LIMIT n in front of it, not at its end
LimitInside(q, n) == <<"l", "i", "m", "i", "t", " ">> \o IntToStr(n) \o <<" ">> \o q

\* C35: of a text that ends in LIMIT n, or in LIMIT n OFFSET m,
\* extract_limit_from_query returns the canonical text of the part before the
\* clause and n; of a text without a LIMIT clause at its end it returns the
\* canonical text and None; parse_query_metadata has has_limit true exactly when
\* a value was extracted and keeps the text it was given as original_query
C35_ExtractLimit ==
    \A text \in {normalize_query_text(qb)},
       with \in {parse_query_metadata(WithLimit(qb, 2))},
       without \in {parse_query_metadata(qb)} :
        /\ extract_limit_from_query(qb) = <<text, None>>
        /\ \A n \in LimitValues :
              /\ extract_limit_from_query(WithLimit(qb, n)) = <<text, <<n>> >>
              /\ extract_limit_from_query(WithLimitOffset(qb, n, 2)) = <<text, <<n>> >>
              /\ extract_limit_from_query(LimitInside(qb, n))
                    = <<normalize_query_text(LimitInside(qb, n)), None>>
        /\ with.has_limit /\ with.limit_value = <<2>>
        /\ with.query_without_limit = text
        /\ with.original_query = WithLimit(qb, 2)
        /\ ~without.has_limit /\ without.limit_value = None
        /\ without.query_without_limit = text
        /\ without.original_query = qb

\* a text in mixed case with blanks around it: LIMIT 10 OFFSET 2 is taken off and
\* 10 is reported
C35_Witness ==
    /\ qb = <<" ", "a", "B", "\t">>
    /\ extract_limit_from_query(WithLimitOffset(qb, 10, 2)) = << <<"a", "b">>, <<10>> >>
    /\ parse_query_metadata(WithLimit(qb, 2)).original_query # normalize_query_text(WithLimit(qb, 2))

-----------------------------------------------------------------------------
(* Properties of the limit argument *)

\* p resolves, inside the max-age window and with the table in place, the text
\* without a LIMIT clause that the call before it wrote under another limit
\* argument
ResolvesUnderOtherLimit(p) ==
    /\ ResolvesAgain(p)
    /\ manager[p].duckdb_connection
    /\ ~_has_limit_clause(op[p].query_text)
    /\ op[p].limit # lastEvent.limit
    /\ lastWrite[lastEvent.query_hash][1].max_age > 0
    /\ clock - lastWrite[lastEvent.query_hash][1].t
          < lastWrite[lastEvent.query_hash][1].max_age
    /\ lastWrite[lastEvent.query_hash][1].table \in storage

\* C36: after a miss for a text without a LIMIT clause under the limit argument
\* L1, a call for that text under another limit argument inside the max-age
\* window is a hit on the table written under L1: nothing is sent to the remote
\* and the entry is not rewritten
C36_KeyIgnoresLimitArgument ==
    \A p \in Procs :
        ResolvesUnderOtherLimit(p)
           => /\ Hit(p)
              /\ result[p].table = Some(lastWrite[lastEvent.query_hash][1].table)
              /\ op[p].final_query = <<>>
              /\ \A i \in DOMAIN snowducks_cache_metadata :
                    snowducks_cache_metadata[i].query_hash = lastEvent.query_hash
                       => snowducks_cache_metadata[i].created_at
                             = lastWrite[lastEvent.query_hash][1].t

\* the text was written under the default limit and is served an hour later to
\* a call with limit = 5
C36_Witness ==
    /\ ResolvesUnderOtherLimit("p1")
    /\ Hit("p1")
    /\ lastEvent.limit = None
    /\ op["p1"].limit = Some(5)
    /\ clock = 1
    /\ lastWrite[lastEvent.query_hash][1].t = 0

\* C37: the statement that a call whose text passed _validate_single_query
\* submits to the remote passes _validate_single_query as well
C37_FinalStatementAccepted ==
    \A p \in Procs :
        pc[p] = "sq_fetch"
           => /\ _validate_single_query(op[p].query_text)
              /\ _validate_single_query(op[p].final_query)

-----------------------------------------------------------------------------
(* Properties of the entries written under max-age 0 *)

\* the last write of fingerprint h was made while cache_max_age_hours was 0
WrittenUnderZero(h) == lastWrite[h] # None /\ lastWrite[h][1].max_age = 0

\* C38: an entry written while cache_max_age_hours = 0 is never served: a
\* resolve of its text decides miss, at the time of the write and at every later
\* time; its expires_at is null, and it is still in the catalog when
\* cleanup_expired_cache has returned
C38_ZeroMaxAgeNeverHits ==
    \A h \in Fingerprints :
        WrittenUnderZero(h)
           => /\ \A p \in Procs :
                    Hit(p) => _generate_query_hash(op[p].query_text) # h
              /\ \A i \in DOMAIN snowducks_cache_metadata :
                    snowducks_cache_metadata[i].query_hash = h
                       => snowducks_cache_metadata[i].expires_at = None
              /\ \A p \in Procs :
                    Cleaned(p)
                       => RowsOf(snowducks_cache_metadata, h) = RowsOf(op[p].seen_cache, h)

\* two hours after the write under max-age 0, with the table in place and no
\* force refresh, the resolve of the text decides miss
C38_Witness ==
    /\ Missed("p1")
    /\ ~ForceRefresh("p1")
    /\ manager["p1"].duckdb_connection
    /\ WrittenUnderZero(_generate_query_hash(op["p1"].query_text))
    /\ SchemaTable(op["p1"].query_text) \in storage
    /\ clock = 2
    /\ RowsOf(snowducks_cache_metadata, _generate_query_hash(op["p1"].query_text)) # <<>>

-----------------------------------------------------------------------------
(* Properties of a failed start of the manager *)

\* the construction of the manager of p has raised DuckLakeError
InitRaised(p) ==
    /\ pc[p] = "done"
    /\ result[p].kind = "raise"
    /\ result[p].error = "DuckLakeError"
    /\ op[p].building # NoManager

\* C39: when the construction of the manager has raised DuckLakeError, the
\* process does not hold the lock and the lock file of the manager under
\* construction is closed; and while configure waits for the lock of the new
\* manager, the old manager is closed and the process does not hold the lock
C39_FailedStartReleasesLock ==
    \A p \in Procs :
        /\ InitRaised(p)
              => /\ p \notin flock
                 /\ ~op[p].building.lock_fd
                 /\ ~op[p].building.lock_file
                 /\ ~op[p].building.duckdb_connection
        /\ (pc[p] = "acquire_lock" /\ op[p].name = "configure")
              => /\ p \notin flock
                 /\ ~manager[p].lock_fd
                 /\ ~manager[p].lock_file
                 /\ ~manager[p].duckdb_connection

\* configure has closed a ready manager, the new manager took the lock at its
\* first attempt and a later step of its start raised
C39_Witness ==
    /\ InitRaised("p1")
    /\ op["p1"].name = "configure"
    /\ op["p1"].attempt = 0
    /\ manager["p1"].state = "closed"
    /\ "p1" \notin flock

=============================================================================
